---- MODULE Spec2Model ----
(***************************************************************************)
(* Model of the completion task engine of java-llama.cpp:                  *)
(* CompletionManager::requestCompletion / receiveCompletion /              *)
(* cancelCompletion / releaseTask (completion_manager.cpp, duplicated in   *)
(* jllama.cpp), CompletionTask (completion_task.h/.cpp), LlamaServer       *)
(* (llama_server.h) and ModelManager::deleteModel (model_manager.cpp).     *)
(*                                                                         *)
(* The native library (tokenizer, decoder, samplers, grammar compiler) is  *)
(* an external collaborator: each of its results is an input drawn from a  *)
(* small set.  The native objects the engine owns (sequence slot 0 of the  *)
(* context, the sampler chains) are modelled by what the calls do to them. *)
(*                                                                         *)
(* Each handler is an operator from the session and the inputs of a call   *)
(* to what the call returns and the session it leaves; an action is one    *)
(* call of a handler.  A claim about what a call returns is stated of      *)
(* every call that can be made in a reachable state.                       *)
(***************************************************************************)
EXTENDS Integers, Sequences, FiniteSets, TLC

\* ----------------------------------------------------------------- bounds
\* Spec: several tasks on one session, short generations
MaxTasks    == 2    \* number of requestCompletion calls that draw an id
MaxPredict  == 1    \* largest n_predict submitted
\* SpecDeep: one task, longer generations, the fragments returned are kept
DeepTasks   == 1    \* number of requestCompletion calls that draw an id
DeepPredict == 3    \* largest n_predict submitted
\* SpecThreads: the handlers called from several threads
NThreads    == 2    \* number of calling threads
ThreadTasks == 1    \* largest id a requestCompletion call may draw
\* SpecClass: preprocess called with one negated class
MaxItems    == 3    \* number of items in the content of the class
\* SpecPattern: preprocess called with a text made of pieces
MaxPieces   == 4    \* number of pieces in the pattern
\* SpecRange: preprocess called with one negated class, its ranges of
\* any endpoints
MaxRangeItems  == 4 \* number of items in the content of the class
\* SpecBatch: one batch, decoded and encoded
MaxBatchTokens == 2 \* capacity of the batch
MaxEscapes == 3        \* pieces of a pattern with \u escapes
MaxHexEscapes == 3     \* pieces of a pattern with \x escapes
NSessions == 2         \* sessions loaded, each with its server thread

\* ------------------------------------------------------------- vocabulary
EOG        == 0                  \* the end-of-generation token
TextTok    == 1                  \* a token that has text
Vocab      == {EOG, TextTok}     \* what llama_sampler_sample may return

TokenizeFail == <<-1>>           \* llama_tokenize stayed negative
\* what llama_tokenize makes of the prompt: a failure or one token
Tokenizations == {TokenizeFail, <<TextTok>>}

Grammars   == {"", "[a]"}        \* "" = no grammar parameter

NoSampler     == 0               \* nullptr
NoTask        == 0               \* no task: end() of the registry, nullptr
NoThread      == 0               \* the holder of a free mutex
Threads       == 1..NThreads     \* the calling threads
ServerSampler == -1              \* handle of LlamaServer::sampler
TaskIds(n)    == 1..n

VARIABLES
  g_servers,      \* TRUE while the session handle maps to a LlamaServer
  next_task_id,   \* LlamaServer::next_task_id
  active_tasks,   \* LlamaServer::active_tasks : id -> CompletionTask
  task_results,   \* LlamaServer::task_results : id -> queue of results
  kv_seq0,        \* positions held by sequence slot 0 of LlamaServer::ctx
  samplers,       \* native sampler chains: handle -> [status, frees]
  native_faults,  \* misuse of native objects seen so far
  batches,        \* llama_batch objects allocated and not freed
  hist,           \* per registered task: the non-final fragments returned
  issued,         \* ids returned by successful requestCompletion calls
  \* the calling threads
  pc,                  \* thread -> where it is in its call
  local_id,            \* thread -> the id argument, or the id drawn
  task_ptr,            \* thread -> the task its lookup returned, or NoTask
  active_tasks_mutex,  \* LlamaServer::active_tasks_mutex: its holder
  \* PatternPreprocessor::preprocess, one call
  pattern,        \* the argument of preprocess
  pp_pc,          \* where the call is
  pp_result,      \* preprocess's result, the input of the pass that runs
  class_result,   \* process_negated_char_classes's result so far
  last_pos,       \* process_negated_char_classes's last_pos
  match,          \* *it: position and length of the match
  negated_chars,  \* the content of the class matched
  chars_i,        \* the parse loop's i
  excluded,       \* the set excluded
  range_c,        \* the range loop's c
  \* BatchManager
  batchRegistry,  \* batchRegistry: handle -> llama_batch
  batch_call,     \* the last decodeTokens / encodeContext call: what it
                  \* returned and whether it made the native call
  \* AdvancedSamplerManager, LoRAAdapterManager
  native_objects, \* address -> the sampler or adapter created there
  handle_call,    \* the last call that was given a handle
  \* LlamaServer's background thread, per session
  server_thread,    \* where the thread is in server_loop
  should_stop,      \* LlamaServer::should_stop
  task_queue_mutex, \* LlamaServer::task_queue_mutex is held
  stopper           \* where the thread that destroys the session is

sessionVars == <<g_servers, next_task_id, active_tasks, task_results,
                 kv_seq0, samplers, native_faults, batches, hist, issued>>

threadVars == <<pc, local_id, task_ptr, active_tasks_mutex>>

engineVars == <<sessionVars, threadVars>>

classVars == <<class_result, last_pos, match, negated_chars, chars_i,
               excluded, range_c>>

patternVars == <<pattern, pp_pc, pp_result, classVars>>

batchVars == <<batchRegistry, batch_call>>

handleVars == <<native_objects, handle_call>>

serverVars == <<server_thread, should_stop, task_queue_mutex, stopper>>

\* the state of the helpers next to the engine
toolVars == <<patternVars, batchVars, handleVars, serverVars>>

besidesPattern == <<engineVars, batchVars, handleVars, serverVars>>

besidesBatch == <<engineVars, patternVars, handleVars, serverVars>>

besidesHandles == <<engineVars, patternVars, batchVars, serverVars>>

besidesServer == <<engineVars, patternVars, batchVars, handleVars>>

vars == <<engineVars, toolVars>>

\* the session as the handlers see it
Now ==
  [ g_servers |-> g_servers, next_task_id |-> next_task_id,
    active_tasks |-> active_tasks, task_results |-> task_results,
    kv_seq0 |-> kv_seq0, samplers |-> samplers,
    native_faults |-> native_faults, batches |-> batches ]

\* the session after a handler has returned with session s
Becomes(s) ==
  /\ g_servers' = s.g_servers
  /\ next_task_id' = s.next_task_id
  /\ active_tasks' = s.active_tasks
  /\ task_results' = s.task_results
  /\ kv_seq0' = s.kv_seq0
  /\ samplers' = s.samplers
  /\ native_faults' = s.native_faults
  /\ batches' = s.batches

\* ---------------------------------------------------------------- helpers
\* std::unordered_map::erase(key)
MapErase(m, k) == [x \in DOMAIN m \ {k} |-> m[x]]

\* std::unordered_map::operator[](key) = value
MapPut(m, k, v) == [x \in DOMAIN m \cup {k} |-> IF x = k THEN v ELSE m[x]]

\* llama_token_to_piece: the text of a token
TokenToPiece(tok) == IF tok = TextTok THEN <<"a">> ELSE <<>>

\* llama_vocab_is_eog
IsEog(tok) == tok = EOG

\* CompletionTask::CompletionTask and the member initialisers
NewTask(task_id, predict, g) ==
  [ id               |-> task_id,
    grammar          |-> g,
    task_sampler     |-> NoSampler,
    state            |-> "PENDING",
    prompt_tokens    |-> <<>>,
    generated_tokens |-> <<>>,
    current_text     |-> <<>>,
    n_predict        |-> predict,
    current_pos      |-> 0,
    cancelled        |-> FALSE ]

\* llama_sampler_free on a handle
SamplerFree(S, h) ==
  [S EXCEPT ![h] = [status |-> "freed", frees |-> @.frees + 1]]

\* a destructor that does not free the chain
DestroyTask_Leak(S, task) == S

\* CompletionTask::~CompletionTask
DestroyTask(S, task) ==
  IF task.task_sampler # NoSampler
  THEN SamplerFree(S, task.task_sampler)
  ELSE S

RECURSIVE DestroyAll(_, _, _)
\* destruction of registry entries: each of the tasks ids is destroyed
DestroyAll(S, tasks, ids) ==
  IF ids = {} THEN S
  ELSE LET i == CHOOSE x \in ids : TRUE
       IN DestroyAll(DestroyTask(S, tasks[i]), tasks, ids \ {i})

\* faults the destruction of the tasks ids causes in sampler table S
FreeFaults(S, tasks, ids) ==
  IF \E i \in ids : /\ tasks[i].task_sampler # NoSampler
                    /\ S[tasks[i].task_sampler].status = "freed"
  THEN {"double_free"} ELSE {}

\* what a call returns and did, next to the session it leaves (st)
Out(s, op, id) ==
  [ st |-> s, op |-> op, id |-> id, rc |-> 0, result |-> "void",
    stage |-> "none", fragment |-> <<>>, isFinal |-> FALSE,
    sampler |-> NoSampler, accepted |-> FALSE, token |-> EOG,
    decoded |-> FALSE, decode_ok |-> FALSE, decode_pos |-> 0, n_kv |-> 0 ]

NoHist == [ n_fragments |-> 0, fragments |-> <<>> ]

\* ------------------------------------------------------------------- Init
NoMatch == -1                    \* the end iterator: no further match

\* preprocess is not running
PreprocessorIdle ==
  /\ pattern = <<>>
  /\ pp_pc = "idle"
  /\ pp_result = <<>>
  /\ class_result = <<>>
  /\ last_pos = 0
  /\ match = [position |-> 0, length |-> 0]
  /\ negated_chars = <<>>
  /\ chars_i = 0
  /\ excluded = {}
  /\ range_c = 0

\* A llama_batch: n_tokens; whether token, pos and logits point at an
\* array; n_seq_id and seq_id as arrays of MaxBatchTokens slots, << >>
\* for a null array pointer, NullSlot for seq_id[i] == nullptr (of
\* seq_id[i] the first element, seq_id[i][0], is kept).
NullSlot     == -99
NullArray    == << >>
NativeResults == {0, -1}         \* what llama_decode / llama_encode return
BatchHandle  == 1                \* the handle initializeBatch returned
NoBatchHandle == 2               \* a handle batchRegistry does not hold

\* llama_batch_init does not initialise what it allocates: the slots hold
\* any count and any id; a malloc that failed left a null pointer
Batches ==
  [ n_tokens : -1..MaxBatchTokens,
    token    : BOOLEAN,
    pos      : BOOLEAN,
    logits   : BOOLEAN,
    n_seq_id : {NullArray} \cup [1..MaxBatchTokens -> {0, 2}],
    seq_id   : {NullArray} \cup [1..MaxBatchTokens -> {NullSlot, -1, 1}] ]

NoCall == [ op |-> "none", rc |-> 0, native |-> FALSE ]

\* no batch was initialised
BatchIdle ==
  /\ batchRegistry = << >>
  /\ batch_call = NoCall

\* A handle is the address of the native object, as a jlong.  The model's
\* integers are 32 bits wide: JLongMax stands for 0x7FFFFFFFFFFFFFFF, the
\* largest value of the type.
MinPointer == 4096               \* 0x1000
JLongMax   == 2147483647
NullPtr    == 0
Pointers   == {8192, 12288}      \* addresses the native library returns

\* the handle values a caller passes
HandleValues ==
  {-1, 0, 1, MinPointer - 1, MinPointer, JLongMax - 1, JLongMax}
    \cup Pointers

NoHandleCall ==
  [ op |-> "none", handles |-> {}, native |-> FALSE, failure |-> FALSE,
    stale |-> FALSE, fault |-> "none" ]

\* no sampler and no adapter was created
HandlesIdle ==
  /\ native_objects = << >>
  /\ handle_call = NoHandleCall

Sessions == 1..NSessions

\* model_manager.cpp line 76: loadModel has started the server thread of
\* each session, nobody destroys a session
ServerStarted ==
  /\ server_thread = [s \in Sessions |-> "loop"]
  /\ should_stop = [s \in Sessions |-> FALSE]
  /\ task_queue_mutex = [s \in Sessions |-> FALSE]
  /\ stopper = [s \in Sessions |-> "idle"]

\* the session after loadModel, no handler running
EngineInit ==
  /\ g_servers = TRUE
  /\ next_task_id = 1
  /\ active_tasks = <<>>
  /\ task_results = <<>>
  /\ kv_seq0 = <<>>
  /\ samplers = (ServerSampler :> [status |-> "live", frees |-> 0])
  /\ native_faults = {}
  /\ batches = 0
  /\ hist = <<>>
  /\ issued = <<>>
  /\ pc = [t \in Threads |-> "idle"]
  /\ local_id = [t \in Threads |-> NoTask]
  /\ task_ptr = [t \in Threads |-> NoTask]
  /\ active_tasks_mutex = NoThread
  /\ ServerStarted

Init == EngineInit /\ PreprocessorIdle /\ BatchIdle /\ HandlesIdle

\* what a poll adds to the record of the task's polls
Observe(h, o) ==
  IF o.op = "poll" /\ o.result = "output" /\ ~o.isFinal /\ o.id \in DOMAIN h
  THEN [h EXCEPT ![o.id] = [n_fragments |-> @.n_fragments + 1,
                            fragments   |-> @.fragments \o o.fragment]]
  ELSE h

\* the record follows the registry: a new task starts with no fragments,
\* a task that left the registry is forgotten
Track(h, tasks) ==
  [id \in DOMAIN tasks |-> IF id \in DOMAIN h THEN h[id] ELSE NoHist]

\* a call returned o: the session is the one it left, the caller has seen
\* its result; the fragments are kept only where watch is set.  The call
\* ran alone, from its first line to its return.
Returns(o, watch) ==
  /\ UNCHANGED <<threadVars, toolVars>>
  /\ Becomes(o.st)
  /\ hist' = IF watch THEN Track(Observe(hist, o), o.st.active_tasks)
             ELSE hist
  /\ issued' = IF o.op = "submit" /\ o.rc # -1
               THEN Append(issued, o.rc) ELSE issued

\* ------------------------------------------------- requestCompletion
\* the prompt is decoded on top of what the slot holds
ClearSeq0_Keep(kv) == kv

\* llama_memory_seq_rm(memory, 0, -1, -1): sequence slot 0 is emptied
ClearSeq0(kv) == <<>>

\* the prompt batch: batch.pos[i] = i for the n_tokens prompt tokens
PromptPositions(n_tokens) == [i \in 1..n_tokens |-> i - 1]

\* llama_batch_init: one more batch is allocated
BatchInit(s) == [s EXCEPT !.batches = @ + 1]

\* llama_batch_free: one batch less; a free with no batch allocated frees
\* a batch a second time
BatchFree(s) ==
  IF s.batches > 0
  THEN [s EXCEPT !.batches = @ - 1]
  ELSE [s EXCEPT !.native_faults = @ \cup {"batch_double_free"}]

\* the failure branch returns without freeing the batch
FreeOnFailure_Leak(s) == s

\* lines 80-83 and 226-229: the batch is freed before the early return
FreeOnFailure(s) == BatchFree(s)

\* lines 85 and 231: the batch is freed after a decode that succeeded
FreeOnSuccess(s) == BatchFree(s)

\* the batch is freed on the branch the decode result selects
FreeAfterDecode(s, rc) ==
  IF rc # 0 THEN FreeOnFailure(s) ELSE FreeOnSuccess(s)

\* llama_decode of a batch on the context: on success the batch's positions
\* join slot 0, on failure the slot keeps what it held
DecodeInto(kv, positions, rc) == IF rc = 0 THEN kv \o positions ELSE kv

\* server->next_task_id++ : the id the new task gets
TakeTaskId(next) == next

\* the increment is lost: the next call draws the same id
BumpTaskId_Lost(next) == next

\* the value next_task_id holds after the post-increment
BumpTaskId(next) == next + 1

\* the grammar branch: a chain is created only when the grammar compiles;
\* the chain's handle is named after the task that will own it
ChainCreate(S, h) == h :> [status |-> "live", frees |-> 0] @@ S

\* server->active_tasks[task_id] = std::move(task)
StoreTask(tasks, task) == MapPut(tasks, task.id, task)

\* the task is moved into the registry at creation, before the checks
RegistryOnFailure_Stored(tasks, task) == MapPut(tasks, task.id, task)

\* lines 59, 82, 116: return -1 while the task is still held by the local
\* unique_ptr, so the registry is not touched
RegistryOnFailure(tasks, task) == tasks

requestCompletion(s, n_predict, grammar, tokens, decode_rc, grammar_ok) ==
  IF ~s.g_servers
  THEN \* line 28
       [Out(s, "submit", 0) EXCEPT !.rc = -1, !.stage = "server"]
  ELSE
    LET id       == TakeTaskId(s.next_task_id)
        s1       == [s EXCEPT !.next_task_id = BumpTaskId(@)]
        n_tokens == Len(tokens)
        t0       == NewTask(id, n_predict, grammar)
        t1       == [t0 EXCEPT !.prompt_tokens = tokens,
                               !.state = "PROCESSING_PROMPT"]
        cleared  == ClearSeq0(s.kv_seq0)
        s2       == FreeAfterDecode(
                      [BatchInit(s1) EXCEPT !.kv_seq0 =
                         DecodeInto(cleared, PromptPositions(n_tokens),
                                    decode_rc)],
                      decode_rc)
        t2       == [t1 EXCEPT !.current_pos = n_tokens,
                               !.state = "GENERATING"]
        t3       == [t2 EXCEPT !.task_sampler = id]
        decoded(o) == [o EXCEPT !.decoded = TRUE,
                                !.decode_ok = (decode_rc = 0),
                                !.n_kv = Len(cleared)]
        failed(st, task, stage) ==
          [Out([st EXCEPT !.active_tasks = RegistryOnFailure(@, task)],
               "submit", id) EXCEPT !.rc = -1, !.stage = stage]
        stored(st, task) ==
          LET old == IF id \in DOMAIN st.active_tasks THEN {id} ELSE {}
          IN [Out([st EXCEPT
                     !.samplers = DestroyAll(@, st.active_tasks, old),
                     !.native_faults =
                        @ \cup FreeFaults(st.samplers, st.active_tasks, old),
                     !.active_tasks = StoreTask(@, task)],
                  "submit", id) EXCEPT !.rc = id, !.stage = "stored"]
    IN
    IF tokens = TokenizeFail
    THEN \* line 59: n_tokens < 0 after the retry
         failed(s1, t0, "tokenize")
    ELSE IF decode_rc # 0
    THEN \* lines 80-83: the prompt decode failed, slot 0 already cleared
         decoded(failed(s2, t1, "decode"))
    ELSE IF grammar = ""
    THEN \* lines 120-128, no task sampler
         decoded(stored(s2, t2))
    ELSE IF ~grammar_ok
    THEN \* lines 113-117: llama_sampler_init_grammar returned nullptr
         decoded(failed(s2, t2, "grammar"))
    ELSE \* lines 101-111 and 120-128: the task owns a new chain
         decoded(stored([s2 EXCEPT !.samplers = ChainCreate(@, id)], t3))

\* Results the native library is never asked for (the decode of a prompt that
\* did not tokenize, the compilation of an absent grammar) are not drawn.
SubmitInputs(maxPredict) ==
  { <<0, "", TokenizeFail, 0, TRUE>> }
  \cup { <<0, "", tokens, 1, TRUE>> :
           tokens \in Tokenizations \ {TokenizeFail} }
  \cup { <<n, g[1], tokens, 0, g[2]>> :
           n \in 0..maxPredict,
           g \in {<<"", TRUE>>} \cup ((Grammars \ {""}) \X BOOLEAN),
           tokens \in Tokenizations \ {TokenizeFail} }

Submit(maxTasks, maxPredict, watch) ==
  /\ g_servers => next_task_id <= maxTasks
  /\ \E in \in SubmitInputs(maxPredict) :
       Returns(requestCompletion(Now, in[1], in[2], in[3], in[4], in[5]),
               watch)

\* ------------------------------------------------- receiveCompletion
\* the limit test written with > : one token too many
LimitReached_OffByOne(task) == Len(task.generated_tokens) > task.n_predict

\* line 156: generated_tokens.size() >= n_predict
LimitReached(task) == Len(task.generated_tokens) >= task.n_predict

\* every poll samples from the session's sampler
SamplerToUse_Server(task) == ServerSampler

\* line 175: task->task_sampler ? task->task_sampler : server->sampler
SamplerToUse(task) ==
  IF task.task_sampler # NoSampler THEN task.task_sampler ELSE ServerSampler

\* the end-of-generation response built like the limit response: no bytes
EogText_Empty(task) == <<>>

\* lines 192-194: the bytes of the end-of-generation response
EogText(task) == task.current_text

\* lines 204-210: the token joins generated_tokens, its piece joins the text
PushToken(task, tok) ==
  [task EXCEPT !.generated_tokens = Append(@, tok),
               !.current_text = IF Len(TokenToPiece(tok)) > 0
                                THEN @ \o TokenToPiece(tok) ELSE @]

\* the position is read and not incremented
AdvancePos_Stuck(task) == task

\* line 220: batch.pos[0] = task->current_pos++
AdvancePos(task) == [task EXCEPT !.current_pos = @ + 1]

\* the task whose decode failed is dropped from the registry
DecodeFailed_Dropped(o) ==
  [o EXCEPT !.result = "null", !.stage = "decode",
            !.st.active_tasks = MapErase(@, o.id)]

\* the token whose decode failed is taken back
DecodeFailed_RolledBack(o) ==
  [o EXCEPT !.result = "null", !.stage = "decode",
            !.st.active_tasks[o.id] =
               [@ EXCEPT !.generated_tokens = SubSeq(@, 1, Len(@) - 1),
                         !.current_pos = @ - 1]]

\* lines 226-229: llama_batch_free(batch); return nullptr
DecodeFailed(o) == [o EXCEPT !.result = "null", !.stage = "decode"]

receiveCompletion(s, id, new_token, decode_rc) ==
  LET null(stage) == [Out(s, "poll", id) EXCEPT !.result = "null",
                                                !.stage = stage]
  IN
  IF ~s.g_servers
  THEN null("server")                                   \* lines 139-142
  ELSE IF id \notin DOMAIN s.active_tasks
  THEN null("not_found")                                \* lines 147-150
  ELSE
    LET task == s.active_tasks[id] IN
    IF task.cancelled
    THEN null("cancelled")                              \* line 153
    ELSE IF LimitReached(task)
    THEN \* lines 156-172
         [Out(s, "poll", id) EXCEPT !.result = "output", !.stage = "limit",
                                    !.fragment = <<>>, !.isFinal = TRUE]
    ELSE
      LET used == SamplerToUse(task)
          s1   == [s EXCEPT !.native_faults =
                     @ \cup (IF s.samplers[used].status = "freed"
                             THEN {"use_after_free"} ELSE {})]
          sampled(st) == [Out(st, "poll", id) EXCEPT
                            !.sampler = used, !.token = new_token,
                            !.accepted = (task.task_sampler # NoSampler)]
      IN
      IF IsEog(new_token)
      THEN \* lines 185-201
           [sampled(s1) EXCEPT !.result = "output", !.stage = "eog",
                               !.fragment = EogText(task), !.isFinal = TRUE]
      ELSE \* lines 203-248
           LET pushed == PushToken(task, new_token)
               pos    == pushed.current_pos
               after  == AdvancePos(pushed)
               s2     == FreeAfterDecode(
                           [BatchInit(s1) EXCEPT
                              !.active_tasks[id] = after,
                              !.kv_seq0 = DecodeInto(@, <<pos>>, decode_rc)],
                           decode_rc)
               tried  == [sampled(s2) EXCEPT !.decoded = TRUE,
                                             !.decode_ok = (decode_rc = 0),
                                             !.decode_pos = pos,
                                             !.n_kv = Len(s.kv_seq0)]
           IN IF decode_rc # 0
              THEN DecodeFailed(tried)
              ELSE [tried EXCEPT !.result = "output", !.stage = "fragment",
                                 !.fragment = TokenToPiece(new_token),
                                 !.isFinal = FALSE]

\* A token is drawn only by a poll that samples, a decode result only by a
\* poll that decodes.
PollInputs(vocab) ==
  { <<tok, rc>> \in vocab \X {0, 1} : IsEog(tok) => rc = 0 }

Poll(maxTasks, watch) ==
  \E id \in TaskIds(maxTasks), in \in PollInputs(Vocab) :
    Returns(receiveCompletion(Now, id, in[1], in[2]), watch)

\* ---------------------------------------------------- cancelCompletion
\* the flag is written to a copy: the stored task keeps its flag
SetCancelled_Lost(task) == task

\* cancel also throws away what the task has generated
SetCancelled_Reset(task) ==
  [task EXCEPT !.cancelled = TRUE, !.generated_tokens = <<>>,
               !.current_text = <<>>]

\* line 264: task_it->second->cancelled = true
SetCancelled(task) == [task EXCEPT !.cancelled = TRUE]

cancelCompletion(s, id) ==
  IF s.g_servers /\ id \in DOMAIN s.active_tasks
  THEN Out([s EXCEPT !.active_tasks[id] = SetCancelled(@)], "cancel", id)
  ELSE Out(s, "cancel", id)

Cancel(maxTasks, watch) ==
  \E id \in TaskIds(maxTasks) : Returns(cancelCompletion(Now, id), watch)

\* --------------------------------------------------------- releaseTask
\* erase through an unchecked find(): an absent id takes the first entry
EraseTask_Unchecked(tasks, id) ==
  IF id \in DOMAIN tasks \/ DOMAIN tasks = {}
  THEN MapErase(tasks, id)
  ELSE MapErase(tasks, CHOOSE x \in DOMAIN tasks :
                         \A y \in DOMAIN tasks : x <= y)

\* line 281: server->active_tasks.erase(id)
EraseTask(tasks, id) == MapErase(tasks, id)

\* line 285: server->task_results.erase(id)
EraseResults(results, id) == MapErase(results, id)

releaseTask(s, id) ==
  IF ~s.g_servers
  THEN [Out(s, "release", id) EXCEPT !.stage = "server"]
  ELSE
    LET kept == EraseTask(s.active_tasks, id)
        gone == DOMAIN s.active_tasks \ DOMAIN kept
    IN [Out([s EXCEPT
               !.active_tasks = kept,
               !.task_results = EraseResults(@, id),
               !.samplers = DestroyAll(@, s.active_tasks, gone),
               !.native_faults =
                  @ \cup FreeFaults(s.samplers, s.active_tasks, gone)],
            "release", id)
        EXCEPT !.stage = IF id \in DOMAIN s.active_tasks
                         THEN "erased" ELSE "absent"]

\* ids 1..maxTasks are the ids that can be issued, maxTasks + 1 never is
Release(maxTasks, watch) ==
  \E id \in TaskIds(maxTasks + 1) : Returns(releaseTask(Now, id), watch)

\* --------------------------------------------------------- deleteModel
\* g_servers.erase(handle) destroys the LlamaServer: ~LlamaServer frees the
\* session sampler, then the members are destroyed, the registry among them
deleteModel(s) ==
  IF ~s.g_servers
  THEN Out(s, "delete", 0)
  ELSE Out([s EXCEPT
              !.g_servers = FALSE,
              !.samplers = DestroyAll(SamplerFree(@, ServerSampler),
                                      s.active_tasks, DOMAIN s.active_tasks),
              !.native_faults =
                 @ \cup FreeFaults(s.samplers, s.active_tasks,
                                   DOMAIN s.active_tasks),
              !.active_tasks = <<>>,
              !.task_results = <<>>],
           "delete", 0)

Delete(watch) == Returns(deleteModel(Now), watch)

\* ------------------------------------------------------- specification
Next ==
  \/ Submit(MaxTasks, MaxPredict, FALSE)
  \/ Poll(MaxTasks, FALSE)
  \/ Cancel(MaxTasks, FALSE)
  \/ Release(MaxTasks, FALSE)
  \/ Delete(FALSE)

Spec == Init /\ [][Next]_vars

NextDeep ==
  \/ Submit(DeepTasks, DeepPredict, TRUE)
  \/ Poll(DeepTasks, TRUE)
  \/ Cancel(DeepTasks, TRUE)
  \/ Release(DeepTasks, TRUE)
  \/ Delete(TRUE)

SpecDeep == Init /\ [][NextDeep]_vars

\* ------------------------------------- the handlers, thread by thread
\* SpecThreads runs the same handlers from several threads, a step at a
\* time: what a thread does between taking active_tasks_mutex and its
\* return is several steps, and so is what requestCompletion does before
\* it takes the mutex.

\* a mutex that every thread may pass at any time
CanLock_Always(m) == TRUE

\* std::lock_guard<std::mutex>: the constructor returns once the mutex is
\* free
CanLock(m) == m = NoThread

\* what every thread submits: a prompt of one token, no grammar and
\* n_predict 0, so that a poll reads the task it holds and decodes nothing
ThreadPrompt == <<0, "", <<TextTok>>, 0, TRUE>>

\* the labels at which a thread has passed the lock_guard of the registry
\* and has not returned
InRegistry(t) ==
  pc[t] \in {"poll_find", "poll_body", "cancel_find", "cancel_write",
             "release_erase", "submit_store", "return"}

\* a task is destroyed while the threads other than t hold it
InUseFaults(ptrs, ids, t) ==
  IF \E u \in Threads \ {t} : ptrs[u] # NoTask /\ ptrs[u] \in ids
  THEN {"destroyed_in_use"} ELSE {}

\* a thread walks from label from to label to
Goes(t, from, to) == pc[t] = from /\ pc' = [pc EXCEPT ![t] = to]

\* a thread enters a handler; get_completion_server has returned the
\* session.  requestCompletion first draws its id, the others first take
\* the mutex.
Enter(t) ==
  /\ pc[t] = "idle"
  /\ g_servers
  /\ \/ \E op \in {"poll", "cancel", "release"}, id \in TaskIds(ThreadTasks) :
          /\ pc' = [pc EXCEPT ![t] = op \o "_lock"]
          /\ local_id' = [local_id EXCEPT ![t] = id]
     \/ /\ next_task_id <= ThreadTasks
        /\ pc' = [pc EXCEPT ![t] = "submit_read"]
        /\ local_id' = [local_id EXCEPT ![t] = NoTask]
  /\ UNCHANGED <<sessionVars, task_ptr, active_tasks_mutex>>
  /\ UNCHANGED toolVars

\* lines 122, 145, 261, 280: the lock_guard is constructed
Lock(t) ==
  /\ \E op \in {"poll", "cancel", "release", "submit"} :
       /\ pc[t] = op \o "_lock"
       /\ pc' = [pc EXCEPT ![t] = CASE op = "poll"    -> "poll_find"
                                    [] op = "cancel"  -> "cancel_find"
                                    [] op = "release" -> "release_erase"
                                    [] op = "submit"  -> "submit_store"]
  /\ CanLock(active_tasks_mutex)
  /\ active_tasks_mutex' = t
  /\ UNCHANGED <<sessionVars, local_id, task_ptr>>
  /\ UNCHANGED toolVars

\* lines 146-150 and 262-263: active_tasks.find(id); the handler returns
\* when it finds nothing, else it holds the task
Find(t) ==
  /\ \E op \in {"poll", "cancel"} :
       /\ pc[t] = op \o "_find"
       /\ IF local_id[t] \in DOMAIN active_tasks
          THEN /\ task_ptr' = [task_ptr EXCEPT ![t] = local_id[t]]
               /\ pc' = [pc EXCEPT ![t] = IF op = "poll" THEN "poll_body"
                                          ELSE "cancel_write"]
          ELSE /\ task_ptr' = task_ptr
               /\ pc' = [pc EXCEPT ![t] = "return"]
  /\ UNCHANGED <<sessionVars, local_id, active_tasks_mutex>>
  /\ UNCHANGED toolVars

\* what a handler does through the task it holds: on a task that is gone
\* it reads and writes freed memory
Through(t, s) ==
  IF task_ptr[t] \in DOMAIN active_tasks
  THEN Becomes(s)
  ELSE Becomes([Now EXCEPT !.native_faults = @ \cup {"use_after_free"}])

\* lines 152-250: receiveCompletion from the cancellation check to its
\* return value
PollBody(t) ==
  /\ Goes(t, "poll_body", "return")
  /\ \E in \in PollInputs(Vocab) :
       Through(t, receiveCompletion(Now, task_ptr[t], in[1], in[2]).st)
  /\ UNCHANGED <<hist, issued, local_id, task_ptr, active_tasks_mutex>>
  /\ UNCHANGED toolVars

\* line 264: the flag is written through the iterator
CancelWrite(t) ==
  /\ Goes(t, "cancel_write", "return")
  /\ Through(t, cancelCompletion(Now, task_ptr[t]).st)
  /\ UNCHANGED <<hist, issued, local_id, task_ptr, active_tasks_mutex>>
  /\ UNCHANGED toolVars

\* lines 279-286: the two erases
ReleaseErase(t) ==
  /\ Goes(t, "release_erase", "return")
  /\ LET s == releaseTask(Now, local_id[t]).st
     IN Becomes([s EXCEPT !.native_faults =
                   @ \cup InUseFaults(task_ptr, {local_id[t]}, t)])
  /\ UNCHANGED <<hist, issued, local_id, task_ptr, active_tasks_mutex>>
  /\ UNCHANGED toolVars

\* line 43, the read of server->next_task_id++
SubmitRead(t) ==
  /\ Goes(t, "submit_read", "submit_write")
  /\ local_id' = [local_id EXCEPT ![t] = TakeTaskId(next_task_id)]
  /\ UNCHANGED <<sessionVars, task_ptr, active_tasks_mutex>>
  /\ UNCHANGED toolVars

\* line 43, the write of server->next_task_id++
SubmitWrite(t) ==
  /\ Goes(t, "submit_write", "submit_prompt")
  /\ next_task_id' = BumpTaskId(local_id[t])
  /\ UNCHANGED <<g_servers, active_tasks, task_results, kv_seq0, samplers,
                 native_faults, batches, hist, issued>>
  /\ UNCHANGED <<local_id, task_ptr, active_tasks_mutex>>
  /\ UNCHANGED toolVars

\* what requestCompletion makes of the id thread t drew
Submitted(t) ==
  requestCompletion([Now EXCEPT !.next_task_id = local_id[t]],
                    ThreadPrompt[1], ThreadPrompt[2], ThreadPrompt[3],
                    ThreadPrompt[4], ThreadPrompt[5])

\* lines 45-87: the prompt is decoded into sequence slot 0, no mutex held
SubmitPrompt(t) ==
  /\ Goes(t, "submit_prompt", "submit_lock")
  /\ kv_seq0' = Submitted(t).st.kv_seq0
  /\ UNCHANGED <<g_servers, next_task_id, active_tasks, task_results,
                 samplers, native_faults, batches, hist, issued>>
  /\ UNCHANGED <<local_id, task_ptr, active_tasks_mutex>>
  /\ UNCHANGED toolVars

\* line 123: active_tasks[task_id] = std::move(task); a task stored under
\* the id before is destroyed by the assignment (the ids returned to the
\* callers are not recorded here)
SubmitStore(t) ==
  /\ Goes(t, "submit_store", "return")
  /\ LET id  == local_id[t]
         old == {id} \cap DOMAIN active_tasks
     IN /\ active_tasks' = StoreTask(active_tasks,
                                     Submitted(t).st.active_tasks[id])
        /\ samplers' = DestroyAll(samplers, active_tasks, old)
        /\ native_faults' = native_faults
                              \cup FreeFaults(samplers, active_tasks, old)
                              \cup InUseFaults(task_ptr, old, t)
  /\ UNCHANGED <<g_servers, next_task_id, task_results, kv_seq0, batches,
                 hist, issued>>
  /\ UNCHANGED <<local_id, task_ptr, active_tasks_mutex>>
  /\ UNCHANGED toolVars

\* the handler returns: the lock_guard is destroyed, the locals are gone
Return(t) ==
  /\ Goes(t, "return", "idle")
  /\ active_tasks_mutex' = IF active_tasks_mutex = t THEN NoThread
                           ELSE active_tasks_mutex
  /\ task_ptr' = [task_ptr EXCEPT ![t] = NoTask]
  /\ local_id' = [local_id EXCEPT ![t] = NoTask]
  /\ UNCHANGED sessionVars
  /\ UNCHANGED toolVars

NextThreads ==
  \E t \in Threads :
    \/ Enter(t)
    \/ Lock(t)
    \/ Find(t)
    \/ PollBody(t)
    \/ CancelWrite(t)
    \/ ReleaseErase(t)
    \/ SubmitRead(t)
    \/ SubmitWrite(t)
    \/ SubmitPrompt(t)
    \/ SubmitStore(t)
    \/ Return(t)

SpecThreads == Init /\ [][NextThreads]_vars

\* model_manager.cpp lines 95-103, from thread t: g_servers.erase(handle)
\* under g_servers_mutex destroys the LlamaServer, whatever the other
\* threads do with the pointer get_completion_server gave them; a thread
\* inside a handler then works on freed memory
DeleteModel(t) ==
  /\ pc[t] = "idle"
  /\ g_servers
  /\ LET s == deleteModel(Now).st
     IN Becomes([s EXCEPT !.native_faults =
                   @ \cup IF \E u \in Threads \ {t} : pc[u] # "idle"
                          THEN {"use_after_free"} ELSE {}])
  /\ UNCHANGED <<hist, issued, threadVars>>
  /\ UNCHANGED toolVars

\* a thread inside a handler of a session that was destroyed: what it
\* reads and writes next (the registry, the mutex, the context) is freed
\* memory; however the call ends, it has used it
OnFreed(t) ==
  /\ ~g_servers
  /\ pc[t] # "idle"
  /\ pc' = [pc EXCEPT ![t] = "idle"]
  /\ native_faults' = native_faults \cup {"use_after_free"}
  /\ active_tasks_mutex' = IF active_tasks_mutex = t THEN NoThread
                           ELSE active_tasks_mutex
  /\ task_ptr' = [task_ptr EXCEPT ![t] = NoTask]
  /\ local_id' = [local_id EXCEPT ![t] = NoTask]
  /\ UNCHANGED <<g_servers, next_task_id, active_tasks, task_results,
                 kv_seq0, samplers, batches, hist, issued>>
  /\ UNCHANGED toolVars

\* a step of a handler on the session while it exists
Running(t) ==
  /\ g_servers
  /\ \/ Enter(t)
     \/ Lock(t)
     \/ Find(t)
     \/ PollBody(t)
     \/ CancelWrite(t)
     \/ ReleaseErase(t)
     \/ SubmitRead(t)
     \/ SubmitWrite(t)
     \/ SubmitPrompt(t)
     \/ SubmitStore(t)
     \/ Return(t)

\* the handlers and the teardown of the session, thread by thread
NextTeardown ==
  \E t \in Threads :
    \/ Running(t)
    \/ DeleteModel(t)
    \/ OnFreed(t)

SpecTeardown == Init /\ [][NextTeardown]_vars

\* ------------------------------------------------- PatternPreprocessor
\* A std::string is a sequence of bytes 0..255.  The printable ASCII
\* characters, from 0x20 to 0x7E, in code order (the grave accent, 0x60,
\* by its name):
Printable ==
  << " ", "!", "\"", "#", "$", "%", "&", "'", "(", ")", "*", "+", ",", "-",
     ".", "/", "0", "1", "2", "3", "4", "5", "6", "7", "8", "9", ":", ";",
     "<", "=", ">", "?", "@", "A", "B", "C", "D", "E", "F", "G", "H", "I",
     "J", "K", "L", "M", "N", "O", "P", "Q", "R", "S", "T", "U", "V", "W",
     "X", "Y", "Z", "[", "\\", "]", "^", "_", "grave", "a", "b", "c", "d", "e",
     "f", "g", "h", "i", "j", "k", "l", "m", "n", "o", "p", "q", "r", "s",
     "t", "u", "v", "w", "x", "y", "z", "{", "|", "}", "~" >>

\* the byte of a printable character
Ord(ch) == 31 + (CHOOSE k \in 1..Len(Printable) : Printable[k] = ch)

\* the bytes of a text written character by character
Str(text) == [k \in 1..Len(text) |-> Ord(text[k])]

Backslash == Ord("\\")
LBracket  == Ord("[")
RBracket  == Ord("]")
Caret     == Ord("^")
Dash      == Ord("-")
LowerU    == Ord("u")
LowerX    == Ord("x")
Digits    == Ord("0")..Ord("9")
LowerHex  == Ord("a")..Ord("f")
UpperHex  == Ord("A")..Ord("F")
CharWidth == 256                 \* values of an unsigned char

\* [0-9a-fA-F]
IsHex(b) == b \in Digits \cup LowerHex \cup UpperHex

\* the value std::stoul(.., 16) gives one hex digit
HexDigit(b) ==
  IF b \in Digits THEN b - Ord("0")
  ELSE IF b \in LowerHex THEN b - Ord("a") + 10
  ELSE b - Ord("A") + 10

RECURSIVE HexValue(_)
\* std::stoul(digits, nullptr, 16)
HexValue(digits) ==
  IF digits = <<>> THEN 0
  ELSE 16 * HexValue(SubSeq(digits, 1, Len(digits) - 1))
       + HexDigit(digits[Len(digits)])

\* static_cast<char>(v), read back as an unsigned char
ToChar(v) == v % CharWidth

\* input.substr(pos, n) as result.append(input, pos, n) copies it
Substr(input, pos, n) == SubSeq(input, pos + 1, pos + n)

\* the text after the last match is dropped
Rest_Dropped(input, pos) == <<>>

\* result.append(input, last_pos): the text from last_pos to the end
Rest(input, pos) == SubSeq(input, pos + 1, Len(input))

\* codepoint_to_utf8
codepoint_to_utf8(codepoint) ==
  IF codepoint <= 127
  THEN << ToChar(codepoint) >>
  ELSE IF codepoint <= 2047
  THEN << ToChar(192 + ((codepoint \div 64) % 32)),
          ToChar(128 + (codepoint % 64)) >>
  ELSE IF codepoint <= 65535
  THEN << ToChar(224 + ((codepoint \div 4096) % 16)),
          ToChar(128 + ((codepoint \div 64) % 64)),
          ToChar(128 + (codepoint % 64)) >>
  ELSE IF codepoint <= 1114111
  THEN << ToChar(240 + ((codepoint \div 262144) % 8)),
          ToChar(128 + ((codepoint \div 4096) % 64)),
          ToChar(128 + ((codepoint \div 64) % 64)),
          ToChar(128 + (codepoint % 64)) >>
  ELSE <<>>

\* \\u([0-9a-fA-F]{4}) matches the text at offset pos
UnicodeAt(input, pos) ==
  /\ pos + 6 <= Len(input)
  /\ input[pos + 1] = Backslash
  /\ input[pos + 2] = LowerU
  /\ \A k \in 3..6 : IsHex(input[pos + k])

\* \\x([0-9a-fA-F]{2}) matches the text at offset pos
HexAt(input, pos) ==
  /\ pos + 4 <= Len(input)
  /\ input[pos + 1] = Backslash
  /\ input[pos + 2] = LowerX
  /\ \A k \in 3..4 : IsHex(input[pos + k])

RECURSIVE UnicodeSearch(_, _)
\* the sregex_iterator: offset of the first match at or after from
UnicodeSearch(input, from) ==
  IF from >= Len(input) THEN NoMatch
  ELSE IF UnicodeAt(input, from) THEN from
  ELSE UnicodeSearch(input, from + 1)

RECURSIVE HexSearch(_, _)
HexSearch(input, from) ==
  IF from >= Len(input) THEN NoMatch
  ELSE IF HexAt(input, from) THEN from
  ELSE HexSearch(input, from + 1)

\* the two separators are encoded like every other codepoint
UnicodeCallback_Kept(digits) == codepoint_to_utf8(HexValue(digits))

\* lines 23-32: what replaces the escape with the four digits given
UnicodeCallback(digits) ==
  LET codepoint == HexValue(digits)
  IN IF codepoint = 8232 \/ codepoint = 8233 THEN <<>>
     ELSE codepoint_to_utf8(codepoint)

\* the three control characters are emitted like every other byte
HexCallback_Kept(digits) == << ToChar(HexValue(digits)) >>

\* lines 54-63: what replaces the escape with the two digits given
HexCallback(digits) ==
  LET value == HexValue(digits)
  IN IF value = 11 \/ value = 12 \/ value = 133 THEN <<>>
     ELSE << ToChar(value) >>

RECURSIVE UnicodeLoop(_, _, _)
\* lines 38-44: the loop over the matches and the final append
UnicodeLoop(input, from, out) ==
  LET position == UnicodeSearch(input, from)
  IN IF position = NoMatch THEN out \o Rest(input, from)
     ELSE UnicodeLoop(input, position + 6,
                      out \o Substr(input, from, position - from)
                          \o UnicodeCallback(Substr(input, position + 2, 4)))

process_unicode_escapes(input) == UnicodeLoop(input, 0, <<>>)

RECURSIVE HexLoop(_, _, _)
\* lines 69-75: the loop over the matches and the final append
HexLoop(input, from, out) ==
  LET position == HexSearch(input, from)
  IN IF position = NoMatch THEN out \o Rest(input, from)
     ELSE HexLoop(input, position + 4,
                  out \o Substr(input, from, position - from)
                      \o HexCallback(Substr(input, position + 2, 2)))

process_hex_escapes(input) == HexLoop(input, 0, <<>>)

\* what "." of the regex does not match
LineTerminators == {10, 13}

RECURSIVE ClassClose(_, _)
\* (?:[^\]\\]|\\.)* from offset pos, then \]: the offset of that closing
\* bracket.  The two alternatives start with different characters, so
\* the text is split in one way only and giving back helps nothing.
ClassClose(input, pos) ==
  IF pos >= Len(input) THEN NoMatch
  ELSE IF input[pos + 1] = RBracket THEN pos
  ELSE IF input[pos + 1] = Backslash
  THEN IF pos + 1 < Len(input) /\ input[pos + 2] \notin LineTerminators
       THEN ClassClose(input, pos + 2)
       ELSE NoMatch
  ELSE ClassClose(input, pos + 1)

\* \[\^((?:[^\]\\]|\\.)*)?\] matches the text at offset pos
NegatedAt(input, pos) ==
  /\ pos + 2 <= Len(input)
  /\ input[pos + 1] = LBracket
  /\ input[pos + 2] = Caret
  /\ ClassClose(input, pos + 2) # NoMatch

RECURSIVE NegatedSearch(_, _)
\* the sregex_iterator of line 85: the first match at or after from
NegatedSearch(input, from) ==
  IF from >= Len(input) THEN NoMatch
  ELSE IF NegatedAt(input, from) THEN from
  ELSE NegatedSearch(input, from + 1)

\* lines 100-128: what the escape \next adds to excluded
EscapeSet(next) ==
  CASE next = Ord("r") -> {13}
    [] next = Ord("n") -> {10}
    [] next = Ord("t") -> {9}
    [] next = Ord("d") -> Digits
    [] next = Ord("s") -> {32, 9, 10, 13, 12}
    [] next = Ord("w") -> (Ord("a")..Ord("z")) \cup (Ord("A")..Ord("Z"))
                            \cup Digits \cup {Ord("_")}
    [] OTHER -> {next}

\* std::hex of one nibble
HexChar(v) == IF v < 10 THEN Ord("0") + v ELSE Ord("a") + v - 10

\* the excluded bytes are appended like the others
Emit_Excluded(b, excl) ==
  IF b \in {Backslash, RBracket, Dash, Caret} THEN << Backslash, b >>
  ELSE IF b < 32 \/ b = 127
  THEN << Backslash, LowerX, HexChar(b \div 16), HexChar(b % 16) >>
  ELSE << b >>

\* lines 146-158: what the build loop appends for byte b
Emit(b, excl) ==
  IF b \in excl THEN <<>>
  ELSE IF b \in {Backslash, RBracket, Dash, Caret} THEN << Backslash, b >>
  ELSE IF b < 32 \/ b = 127
  THEN << Backslash, LowerX, HexChar(b \div 16), HexChar(b % 16) >>
  ELSE << b >>

RECURSIVE BuildLoop(_, _, _)
\* line 145: for (unsigned char c = 0; c < 255; ++c), the turns for the
\* bytes lo..hi: what they append, one after the other (the first half
\* of the turns, then the second)
BuildLoop(lo, hi, excl) ==
  IF lo > hi THEN <<>>
  ELSE IF lo = hi THEN Emit(lo, excl)
  ELSE LET mid == (lo + hi) \div 2
       IN BuildLoop(lo, mid, excl) \o BuildLoop(mid + 1, hi, excl)

\* lines 144-160: the positive class
PositiveClass(excl) ==
  << LBracket >> \o BuildLoop(0, 254, excl) \o << RBracket >>

\* line 8: preprocess is called with the pattern given
preprocess_called(given) ==
  /\ pattern = given
  /\ pp_pc = "unicode"
  /\ pp_result = given
  /\ class_result = <<>>
  /\ last_pos = 0
  /\ match = [position |-> 0, length |-> 0]
  /\ negated_chars = <<>>
  /\ chars_i = 0
  /\ excluded = {}
  /\ range_c = 0

\* line 11
UnicodePass ==
  /\ pp_pc = "unicode"
  /\ pp_result' = process_unicode_escapes(pp_result)
  /\ pp_pc' = "hex"
  /\ UNCHANGED <<pattern, classVars, besidesPattern>>

\* line 12
HexPass ==
  /\ pp_pc = "hex"
  /\ pp_result' = process_hex_escapes(pp_result)
  /\ pp_pc' = "negated"
  /\ UNCHANGED <<pattern, classVars, besidesPattern>>

\* lines 89-94 and 164-166: the iterator stands on the next match, the
\* text before it is copied and the parse of its content begins; or no
\* match is left, the rest is copied and preprocess returns the result
NextMatch ==
  /\ pp_pc = "negated"
  /\ LET position == NegatedSearch(pp_result, last_pos)
         close    == ClassClose(pp_result, position + 2)
     IN IF position = NoMatch
        THEN /\ pp_result' = class_result \o Rest(pp_result, last_pos)
             /\ pp_pc' = "done"
             /\ UNCHANGED classVars
        ELSE /\ class_result' = class_result
                  \o Substr(pp_result, last_pos, position - last_pos)
             /\ match' = [position |-> position,
                          length   |-> close + 1 - position]
             /\ negated_chars' = Substr(pp_result, position + 2,
                                        close - (position + 2))
             /\ excluded' = {}
             /\ chars_i' = 0
             /\ pp_pc' = "parse"
             /\ UNCHANGED <<pp_result, last_pos, range_c>>
  /\ UNCHANGED <<pattern, besidesPattern>>

\* lines 97-141, one turn of the parse loop: an escape, the start of a
\* range, or a literal
ParseStep ==
  /\ pp_pc = "parse"
  /\ chars_i < Len(negated_chars)
  /\ IF negated_chars[chars_i + 1] = Backslash
        /\ chars_i + 1 < Len(negated_chars)
     THEN /\ excluded' = excluded \cup EscapeSet(negated_chars[chars_i + 2])
          /\ chars_i' = chars_i + 2
          /\ UNCHANGED <<pp_pc, range_c>>
     ELSE IF chars_i + 2 < Len(negated_chars)
             /\ negated_chars[chars_i + 2] = Dash
     THEN /\ range_c' = negated_chars[chars_i + 1]
          /\ pp_pc' = "range"
          /\ UNCHANGED <<excluded, chars_i>>
     ELSE /\ excluded' = excluded \cup {negated_chars[chars_i + 1]}
          /\ chars_i' = chars_i + 1
          /\ UNCHANGED <<pp_pc, range_c>>
  /\ UNCHANGED <<pattern, pp_result, class_result, last_pos, match,
                 negated_chars, besidesPattern>>

\* lines 134-137, one test of the range loop: c <= end, and either the
\* body and ++c on an unsigned char, or the loop is left
RangeStep ==
  /\ pp_pc = "range"
  /\ IF range_c <= negated_chars[chars_i + 3]
     THEN /\ excluded' = excluded \cup {range_c}
          /\ range_c' = (range_c + 1) % CharWidth
          /\ UNCHANGED <<pp_pc, chars_i>>
     ELSE /\ chars_i' = chars_i + 3
          /\ pp_pc' = "parse"
          /\ UNCHANGED <<excluded, range_c>>
  /\ UNCHANGED <<pattern, pp_result, class_result, last_pos, match,
                 negated_chars, besidesPattern>>

\* lines 143-162: the parse loop is over, the positive class is appended
BuildClass ==
  /\ pp_pc = "parse"
  /\ chars_i >= Len(negated_chars)
  /\ class_result' = class_result \o PositiveClass(excluded)
  /\ last_pos' = match.position + match.length
  /\ pp_pc' = "negated"
  /\ UNCHANGED <<pattern, pp_result, match, negated_chars, chars_i,
                 excluded, range_c, besidesPattern>>

NextPattern ==
  \/ UnicodePass
  \/ HexPass
  \/ NextMatch
  \/ ParseStep
  \/ RangeStep
  \/ BuildClass

RECURSIVE Texts(_, _)
\* the texts made of at most n of the pieces given, one after the other
Texts(n, pieces) ==
  IF n = 0 THEN {<<>>}
  ELSE LET shorter == Texts(n - 1, pieces)
       IN shorter \cup {t \o x : t \in shorter, x \in pieces}

\* what a well-formed class content is built from: literals, a range,
\* the shorthands and an escape
ClassItems ==
  { Str(<<"a">>), Str(<<"b">>), Str(<<"c">>), Str(<<"a", "-", "c">>),
    Str(<<"\\", "d">>), Str(<<"\\", "s">>), Str(<<"\\", "w">>),
    Str(<<"\\", "n">>), Str(<<"\\", "]">>) }

\* the patterns [^S]
ClassPatterns ==
  { Str(<<"[", "^">>) \o content \o Str(<<"]">>) :
      content \in Texts(MaxItems, ClassItems) \ {<<>>} }

InitClass == EngineInit /\ BatchIdle /\ HandlesIdle /\ \E given \in ClassPatterns : preprocess_called(given)

SpecClass == InitClass /\ [][NextPattern]_vars

\* pieces of patterns: the opening of a negated class, its closing, a
\* literal that is a hex digit too, the start of a range, a backslash,
\* the letters of the two escapes
PlainPieces ==
  { Str(<<"[", "^">>), Str(<<"]">>), Str(<<"a">>), Str(<<"a", "-">>),
    Str(<<"\\">>), Str(<<"x">>), Str(<<"u">>) }

InitPattern ==
  EngineInit /\ BatchIdle /\ HandlesIdle /\ \E given \in Texts(MaxPieces, PlainPieces) :
                  preprocess_called(given)

SpecPattern == InitPattern /\ [][NextPattern]_vars

\* the two escape passes alone: lines 11 and 12
NextEscapes ==
  \/ UnicodePass
  \/ HexPass

\* pieces of patterns with Unicode escapes: the two separators, a
\* codepoint of one, of two and of three bytes (one in upper case), the
\* backslash, an escape cut short, the bare \u, a hex digit, a letter
\* that is none, and the tail of a hex escape
UnicodePieces ==
  { Str(<<"\\", "u", "2", "0", "2", "8">>),
    Str(<<"\\", "u", "2", "0", "2", "9">>),
    Str(<<"\\", "u", "0", "0", "4", "1">>),
    Str(<<"\\", "u", "0", "0", "e", "9">>),
    Str(<<"\\", "u", "2", "0", "A", "C">>),
    Str(<<"\\", "u", "0", "0", "5", "c">>),
    Str(<<"\\", "u", "2", "0">>),
    Str(<<"\\", "u">>),
    Str(<<"9">>), Str(<<"g">>), Str(<<"x", "4", "1">>) }

InitUnicode ==
  /\ EngineInit /\ BatchIdle /\ HandlesIdle
  /\ \E given \in Texts(MaxEscapes, UnicodePieces) : preprocess_called(given)

SpecUnicode == InitUnicode /\ [][NextEscapes]_vars

\* pieces of patterns with hex escapes: the three control characters, a
\* letter, a byte above 0x7F (one in upper case), the backslash, an
\* escape cut short, a hex digit, a letter that is none, the Unicode
\* escape of the backslash and the tail of a hex escape
HexPieces ==
  { Str(<<"\\", "x", "0", "b">>), Str(<<"\\", "x", "0", "c">>),
    Str(<<"\\", "x", "8", "5">>), Str(<<"\\", "x", "4", "1">>),
    Str(<<"\\", "x", "e", "9">>), Str(<<"\\", "x", "F", "F">>),
    Str(<<"\\", "x", "5", "c">>), Str(<<"\\", "x", "4">>),
    Str(<<"\\", "x">>), Str(<<"1">>), Str(<<"g">>),
    Str(<<"\\", "u", "0", "0", "5", "c">>), Str(<<"x", "4", "1">>) }

InitHex ==
  /\ EngineInit /\ BatchIdle /\ HandlesIdle
  /\ \E given \in Texts(MaxHexEscapes, HexPieces) : preprocess_called(given)

SpecHex == InitHex /\ [][NextEscapes]_vars

\* what the content of a class with ranges is made of: a literal, a
\* dash, a backslash, the escape of byte 0xFF
RangeItems ==
  { Str(<<"a">>), Str(<<"-">>), Str(<<"\\">>),
    Str(<<"\\", "x", "f", "f">>) }

\* the patterns [^content]
RangePatterns ==
  { Str(<<"[", "^">>) \o content \o Str(<<"]">>) :
      content \in Texts(MaxRangeItems, RangeItems) }

InitRange ==
  EngineInit /\ BatchIdle /\ HandlesIdle /\ \E given \in RangePatterns : preprocess_called(given)

\* preprocess runs on its caller's thread: while it has a next step it
\* takes it
SpecRange == InitRange /\ [][NextPattern]_vars /\ WF_vars(NextPattern)

\* --------------------------------------------------------- BatchManager
\* lines 148-161: the checks on the batch itself, 0 when all pass
CheckBatch_Swapped(b) ==
  IF b.n_tokens <= 0 THEN -2
  ELSE IF ~b.pos THEN -4
  ELSE IF ~b.token THEN -3
  ELSE IF ~b.logits THEN -5
  ELSE 0

\* lines 148-161: the checks on the batch itself, 0 when all pass
CheckBatch(b) ==
  IF b.n_tokens <= 0 THEN -2
  ELSE IF ~b.token THEN -3
  ELSE IF ~b.pos THEN -4
  ELSE IF ~b.logits THEN -5
  ELSE 0

\* lines 166-168: a count that is not positive becomes 1
DefaultCount(b, i) ==
  IF b.n_seq_id # NullArray /\ b.n_seq_id[i] <= 0
  THEN [b EXCEPT !.n_seq_id[i] = 1]
  ELSE b

\* a negative id stays
DefaultSeqId_Skipped(b, i) == b

\* lines 172-177: a negative first id becomes 0
DefaultSeqId(b, i) ==
  IF b.n_seq_id # NullArray /\ b.n_seq_id[i] > 0 /\ b.seq_id[i] < 0
  THEN [b EXCEPT !.seq_id[i] = 0]
  ELSE b

RECURSIVE SeqIdLoop(_, _)
\* lines 164-182: the loop from position i (from 1 here) on; rc is -6
\* where it returned, 0 where it ran to its end
SeqIdLoop(b, i) ==
  IF i > b.n_tokens THEN [ batch |-> b, rc |-> 0 ]
  ELSE LET b1 == DefaultCount(b, i)
       IN IF b1.seq_id # NullArray /\ b1.seq_id[i] # NullSlot
          THEN SeqIdLoop(DefaultSeqId(b1, i), i + 1)
          ELSE IF b1.seq_id # NullArray
          THEN [ batch |-> b1, rc |-> -6 ]
          ELSE SeqIdLoop(b1, i + 1)

\* decodeTokens and encodeContext, the same but for the native call
\* (result is what it returns): the code returned, whether the native call
\* was made, the registry left
RunBatch(ctx, registry, handle, result) ==
  IF ~ctx \/ handle \notin DOMAIN registry
  THEN [ rc |-> -1, native |-> FALSE, registry |-> registry ]
  ELSE LET b  == registry[handle]
           rc == CheckBatch(b)
           l  == SeqIdLoop(b, 1)
       IN IF rc # 0
          THEN [ rc |-> rc, native |-> FALSE, registry |-> registry ]
          ELSE IF l.rc # 0
          THEN [ rc |-> l.rc, native |-> FALSE,
                 registry |-> [registry EXCEPT ![handle] = l.batch] ]
          ELSE [ rc |-> result, native |-> TRUE,
                 registry |-> [registry EXCEPT ![handle] = l.batch] ]

\* lines 139-185
decodeTokens(ctx, registry, handle, llama_decode) ==
  RunBatch(ctx, registry, handle, llama_decode)

\* lines 57-137
encodeContext(ctx, registry, handle, llama_encode) ==
  RunBatch(ctx, registry, handle, llama_encode)

\* lines 233-266: the first min(length, n_tokens) positions get count 1
\* and, where the slot is allocated, the id given
setBatchSequenceIds(registry, handle, sequenceIds) ==
  IF handle \notin DOMAIN registry THEN registry
  ELSE LET b == registry[handle]
           written(k) == k <= Len(sequenceIds) /\ k <= b.n_tokens
       IN [registry EXCEPT ![handle] =
            [b EXCEPT
               !.n_seq_id = [k \in DOMAIN b.n_seq_id |->
                               IF written(k) THEN 1 ELSE b.n_seq_id[k]],
               !.seq_id   = [k \in DOMAIN b.seq_id |->
                               IF written(k) /\ b.seq_id[k] # NullSlot
                               THEN sequenceIds[k] ELSE b.seq_id[k]]]]

\* the jintArray arguments: any length, the same id at every position
SequenceIdArrays ==
  { [k \in 1..n |-> v] : n \in 0..MaxBatchTokens, v \in {-1, 0, 1} }

\* initializeBatch has registered one batch
InitBatch ==
  /\ EngineInit /\ PreprocessorIdle /\ HandlesIdle
  /\ \E b \in Batches : batchRegistry = (BatchHandle :> b)
  /\ batch_call = NoCall

SetSequenceIds ==
  /\ \E handle \in {BatchHandle, NoBatchHandle}, ids \in SequenceIdArrays :
       batchRegistry' = setBatchSequenceIds(batchRegistry, handle, ids)
  /\ batch_call' = NoCall
  /\ UNCHANGED besidesBatch

\* a call of op returned o
BatchReturns(op, o) ==
  /\ batchRegistry' = o.registry
  /\ batch_call' = [ op |-> op, rc |-> o.rc, native |-> o.native ]
  /\ UNCHANGED besidesBatch

DecodeTokens ==
  \E ctx \in BOOLEAN, handle \in {BatchHandle, NoBatchHandle},
     result \in NativeResults :
    BatchReturns("decodeTokens",
                 decodeTokens(ctx, batchRegistry, handle, result))

EncodeContext ==
  \E ctx \in BOOLEAN, handle \in {BatchHandle, NoBatchHandle},
     result \in NativeResults :
    BatchReturns("encodeContext",
                 encodeContext(ctx, batchRegistry, handle, result))

NextBatch ==
  \/ SetSequenceIds
  \/ DecodeTokens
  \/ EncodeContext

SpecBatch == InitBatch /\ [][NextBatch]_vars

\* ------------------------------- sampler and adapter handles
\* every positive handle is valid
validateSamplerHandle_Positive(handle) == handle > 0

\* lines 744-756
validateSamplerHandle(handle) ==
  IF handle <= 0 \/ handle = -1 THEN FALSE
  ELSE IF handle < MinPointer \/ handle >= JLongMax THEN FALSE
  ELSE TRUE

\* lora_adapter_manager.cpp lines 322-336: nullptr or the pointer
getAdapter(handle) ==
  IF handle <= 0 \/ handle = -1 THEN NullPtr
  ELSE IF handle < MinPointer \/ handle >= JLongMax THEN NullPtr
  ELSE handle

\* lines 609-613 and lora_adapter_manager.cpp lines 49-53: the test the
\* two free operations make themselves
FreeRejects(handle) ==
  \/ handle <= 0 \/ handle = -1
  \/ handle < MinPointer \/ handle >= JLongMax

\* the object at p is live
Live(objs, p) == p \in DOMAIN objs /\ objs[p].status = "live"

\* the object at p was freed and its address not given out again
Freed(objs, p) == p \in DOMAIN objs /\ objs[p].status = "freed"

\* what the native library does with pointer p taken for an object of
\* the kind given: nothing wrong on a live object of that kind
NativeFault(objs, p, kind) ==
  IF p \notin DOMAIN objs THEN "wild_pointer"
  ELSE IF objs[p].status = "freed" THEN "use_after_free"
  ELSE IF objs[p].kind # kind THEN "type_confusion"
  ELSE "none"

\* llama_sampler_free / llama_adapter_lora_free on a live object: it is
\* freed, and with a chain the samplers added to it
NativeFree(objs, p) ==
  [q \in DOMAIN objs |->
     IF q = p \/ (objs[q].chain = p /\ objs[q].status = "live")
     THEN [objs[q] EXCEPT !.status = "freed", !.chain = NullPtr]
     ELSE IF objs[q].chain = p THEN [objs[q] EXCEPT !.chain = NullPtr]
     ELSE objs[q]]

\* the fault of freeing p: a member that was freed before is freed again
FreeFault(objs, p, kind) ==
  IF NativeFault(objs, p, kind) = "use_after_free" THEN "double_free"
  ELSE IF NativeFault(objs, p, kind) # "none" THEN NativeFault(objs, p, kind)
  ELSE IF \E q \in DOMAIN objs : objs[q].chain = p /\ objs[q].status = "freed"
  THEN "double_free"
  ELSE "none"

\* a call with the handles given that returned before its native call
Rejected(objs, op, handles, failure) ==
  [ objs |-> objs,
    call |-> [ op |-> op, handles |-> handles, native |-> FALSE,
               failure |-> failure,
               stale |-> \E h \in handles : Freed(objs, h),
               fault |-> "none" ] ]

\* a call with the handles given that made its native call and left after
Reached(objs, after, op, handles, failure, fault) ==
  [ objs |-> after,
    call |-> [ op |-> op, handles |-> handles, native |-> TRUE,
               failure |-> failure,
               stale |-> \E h \in handles : Freed(objs, h),
               fault |-> fault ] ]

\* lines 569-583
addToSamplerChain(objs, chainHandle, samplerHandle) ==
  LET handles == {chainHandle, samplerHandle}
      f1 == NativeFault(objs, chainHandle, "sampler")
      f2 == NativeFault(objs, samplerHandle, "sampler")
  IN IF ~validateSamplerHandle(chainHandle)
        \/ ~validateSamplerHandle(samplerHandle)
     THEN Rejected(objs, "addToSamplerChain", handles, TRUE)
     ELSE IF f1 = "none" /\ f2 = "none" /\ chainHandle # samplerHandle
     THEN Reached(objs, [objs EXCEPT ![samplerHandle].chain = chainHandle],
                  "addToSamplerChain", handles, FALSE, "none")
     ELSE Reached(objs, objs, "addToSamplerChain", handles, FALSE,
                  IF f1 # "none" THEN f1
                  ELSE IF f2 # "none" THEN f2 ELSE "chain_in_itself")

\* lines 585-603: cloned is what llama_sampler_clone returns
cloneSampler(objs, samplerHandle, cloned) ==
  LET fault == NativeFault(objs, samplerHandle, "sampler")
      made  == IF cloned = NullPtr \/ fault # "none" THEN objs
               ELSE MapPut(objs, cloned,
                           [kind |-> "sampler", status |-> "live",
                            chain |-> NullPtr])
  IN IF ~validateSamplerHandle(samplerHandle)
     THEN Rejected(objs, "cloneSampler", {samplerHandle}, TRUE)
     ELSE Reached(objs, made, "cloneSampler", {samplerHandle},
                  cloned = NullPtr, fault)

\* lines 605-621
freeSampler(objs, samplerHandle) ==
  IF FreeRejects(samplerHandle)
  THEN Rejected(objs, "freeSampler", {samplerHandle}, FALSE)
  ELSE Reached(objs,
               IF Live(objs, samplerHandle)
               THEN NativeFree(objs, samplerHandle) ELSE objs,
               "freeSampler", {samplerHandle}, FALSE,
               FreeFault(objs, samplerHandle, "sampler"))

\* lines 625-644: ctx is whether getContext finds the context
sampleToken(objs, samplerHandle, ctx) ==
  IF ~validateSamplerHandle(samplerHandle)
  THEN Rejected(objs, "sampleToken", {samplerHandle}, TRUE)
  ELSE IF ~ctx
  THEN Rejected(objs, "sampleToken", {samplerHandle}, TRUE)
  ELSE Reached(objs, objs, "sampleToken", {samplerHandle}, FALSE,
               NativeFault(objs, samplerHandle, "sampler"))

\* lines 646-674 and 676-694: acceptToken, resetSampler, getSamplerName
SamplerCall(objs, op, samplerHandle) ==
  IF ~validateSamplerHandle(samplerHandle)
  THEN Rejected(objs, op, {samplerHandle}, TRUE)
  ELSE Reached(objs, objs, op, {samplerHandle}, FALSE,
               NativeFault(objs, samplerHandle, "sampler"))

\* lora_adapter_manager.cpp lines 45-61
freeAdapter(objs, adapter_handle) ==
  IF FreeRejects(adapter_handle)
  THEN Rejected(objs, "freeAdapter", {adapter_handle}, FALSE)
  ELSE IF getAdapter(adapter_handle) = NullPtr
  THEN Rejected(objs, "freeAdapter", {adapter_handle}, FALSE)
  ELSE Reached(objs,
               IF Live(objs, adapter_handle)
               THEN NativeFree(objs, adapter_handle) ELSE objs,
               "freeAdapter", {adapter_handle}, FALSE,
               FreeFault(objs, adapter_handle, "adapter"))

\* lora_adapter_manager.cpp lines 63-101: setAdapter and removeAdapter;
\* server is whether getServer finds the server and its context
AdapterCall(objs, op, adapter_handle, server) ==
  IF ~server
  THEN Rejected(objs, op, {adapter_handle}, TRUE)
  ELSE IF getAdapter(adapter_handle) = NullPtr
  THEN Rejected(objs, op, {adapter_handle}, TRUE)
  ELSE Reached(objs, objs, op, {adapter_handle}, FALSE,
               NativeFault(objs, adapter_handle, "adapter"))

\* lora_adapter_manager.cpp lines 189-202: getAdapterMetaCount
getAdapterMetaCount(objs, adapter_handle) ==
  IF getAdapter(adapter_handle) = NullPtr
  THEN Rejected(objs, "getAdapterMetaCount", {adapter_handle}, TRUE)
  ELSE Reached(objs, objs, "getAdapterMetaCount", {adapter_handle}, FALSE,
               NativeFault(objs, adapter_handle, "adapter"))

\* the addresses the native library can give a new object
FreeAddresses(objs) == {p \in Pointers : ~Live(objs, p)}

\* a call returned o
HandleReturns(o) ==
  /\ native_objects' = o.objs
  /\ handle_call' = o.call
  /\ UNCHANGED besidesHandles

\* createSamplerChain and the other create operations, loadAdapter: the
\* native library returns a new object, its address is the handle
Create ==
  /\ \E p \in FreeAddresses(native_objects), kind \in {"sampler", "adapter"} :
       native_objects' = MapPut(native_objects, p,
                                [kind |-> kind, status |-> "live",
                                 chain |-> NullPtr])
  /\ handle_call' = NoHandleCall
  /\ UNCHANGED besidesHandles

AddToSamplerChain ==
  \E chainHandle, samplerHandle \in HandleValues :
    HandleReturns(addToSamplerChain(native_objects, chainHandle,
                                    samplerHandle))

CloneSampler ==
  \E h \in HandleValues,
     cloned \in FreeAddresses(native_objects) \cup {NullPtr} :
    HandleReturns(cloneSampler(native_objects, h, cloned))

FreeSampler ==
  \E h \in HandleValues : HandleReturns(freeSampler(native_objects, h))

SampleToken ==
  \E h \in HandleValues, ctx \in BOOLEAN :
    HandleReturns(sampleToken(native_objects, h, ctx))

SamplerCalls ==
  \E h \in HandleValues,
     op \in {"acceptToken", "resetSampler", "getSamplerName"} :
    HandleReturns(SamplerCall(native_objects, op, h))

FreeAdapter ==
  \E h \in HandleValues : HandleReturns(freeAdapter(native_objects, h))

AdapterCalls ==
  \E h \in HandleValues, op \in {"setAdapter", "removeAdapter"},
     server \in BOOLEAN :
    HandleReturns(AdapterCall(native_objects, op, h, server))

GetAdapterMetaCount ==
  \E h \in HandleValues :
    HandleReturns(getAdapterMetaCount(native_objects, h))

NextHandles ==
  \/ Create
  \/ AddToSamplerChain
  \/ CloneSampler
  \/ FreeSampler
  \/ SampleToken
  \/ SamplerCalls
  \/ FreeAdapter
  \/ AdapterCalls
  \/ GetAdapterMetaCount

InitHandles == EngineInit /\ PreprocessorIdle /\ BatchIdle /\ HandlesIdle

SpecHandles == InitHandles /\ [][NextHandles]_vars

\* ------------------------------------------- LlamaServer's thread
\* Nothing in the repository pushes to task_queue: it is empty, and the
\* predicate of the wait is should_stop alone.

\* the thread of session s goes to where
ServerGoes(s, where) == server_thread' = [server_thread EXCEPT ![s] = where]

\* llama_server.cpp line 6: while (!should_stop)
LoopTest(s) ==
  /\ server_thread[s] = "loop"
  /\ ServerGoes(s, IF should_stop[s] THEN "exited" ELSE "lock")
  /\ UNCHANGED <<should_stop, task_queue_mutex, stopper, besidesServer>>

\* line 7: std::unique_lock<std::mutex> lock(task_queue_mutex)
LockQueue(s) ==
  /\ server_thread[s] = "lock"
  /\ ~task_queue_mutex[s]
  /\ task_queue_mutex' = [task_queue_mutex EXCEPT ![s] = TRUE]
  /\ ServerGoes(s, "predicate")
  /\ UNCHANGED <<should_stop, stopper, besidesServer>>

\* line 8, wait(lock, pred) is while (!pred()) wait(lock): the predicate
\* is tested with the mutex held
Predicate(s) ==
  /\ server_thread[s] = "predicate"
  /\ ServerGoes(s, IF should_stop[s] THEN "check" ELSE "wait")
  /\ UNCHANGED <<should_stop, task_queue_mutex, stopper, besidesServer>>

\* line 8, wait(lock): the mutex is released and the thread blocks
Wait(s) ==
  /\ server_thread[s] = "wait"
  /\ task_queue_mutex' = [task_queue_mutex EXCEPT ![s] = FALSE]
  /\ ServerGoes(s, "blocked")
  /\ UNCHANGED <<should_stop, stopper, besidesServer>>

\* a wait may return without a notification
SpuriousWakeup(s) ==
  /\ server_thread[s] = "blocked"
  /\ ServerGoes(s, "woken")
  /\ UNCHANGED <<should_stop, task_queue_mutex, stopper, besidesServer>>

\* line 8: the woken thread takes the mutex again and tests the predicate
Reacquire(s) ==
  /\ server_thread[s] = "woken"
  /\ ~task_queue_mutex[s]
  /\ task_queue_mutex' = [task_queue_mutex EXCEPT ![s] = TRUE]
  /\ ServerGoes(s, "predicate")
  /\ UNCHANGED <<should_stop, stopper, besidesServer>>

\* lines 10-19: break on should_stop, else the queue is empty and the
\* loop goes round; the lock is released either way
Check(s) ==
  /\ server_thread[s] = "check"
  /\ task_queue_mutex' = [task_queue_mutex EXCEPT ![s] = FALSE]
  /\ ServerGoes(s, IF should_stop[s] THEN "exited" ELSE "loop")
  /\ UNCHANGED <<should_stop, stopper, besidesServer>>

\* the thread that destroys session s goes to where
StopperGoes(s, where) == stopper' = [stopper EXCEPT ![s] = where]

\* model_manager.cpp lines 95-103 and llama_server.h lines 74-75, 67:
\* deleteModel erases the session, ~LlamaServer calls stop_server, which
\* writes should_stop = true, task_queue_mutex not held
SetStop(s) ==
  /\ stopper[s] = "idle"
  /\ should_stop' = [should_stop EXCEPT ![s] = TRUE]
  /\ StopperGoes(s, "notify")
  /\ UNCHANGED <<server_thread, task_queue_mutex, besidesServer>>

\* llama_server.h line 68: task_queue_cv.notify_all() wakes the threads
\* that are blocked in the wait, and no other
NotifyAll(s) ==
  /\ stopper[s] = "notify"
  /\ ServerGoes(s, IF server_thread[s] = "blocked" THEN "woken"
                   ELSE server_thread[s])
  /\ StopperGoes(s, "join")
  /\ UNCHANGED <<should_stop, task_queue_mutex, besidesServer>>

\* llama_server.h lines 69-71: server_thread.join() returns once the
\* thread has left server_loop
Join(s) ==
  /\ stopper[s] = "join"
  /\ server_thread[s] = "exited"
  /\ StopperGoes(s, "joined")
  /\ UNCHANGED <<server_thread, should_stop, task_queue_mutex,
                 besidesServer>>

\* the steps the scheduler owes a thread that can take them
ServerRuns(s) ==
  \/ LoopTest(s)
  \/ LockQueue(s)
  \/ Predicate(s)
  \/ Wait(s)
  \/ Reacquire(s)
  \/ Check(s)

StopperRuns(s) ==
  \/ NotifyAll(s)
  \/ Join(s)

NextServer ==
  \E s \in Sessions :
    \/ ServerRuns(s)
    \/ StopperRuns(s)
    \/ SetStop(s)
    \/ SpuriousWakeup(s)

\* every thread that can run does run; a spurious wakeup may never come,
\* and a session need not ever be destroyed
SpecServer ==
  /\ Init
  /\ [][NextServer]_vars
  /\ \A s \in Sessions : WF_vars(ServerRuns(s)) /\ WF_vars(StopperRuns(s))

\* ------------------------------------------------------------ the claims
\* the ids a caller can name in session s: those drawn so far and the next
\* one, which no submit has returned
KnownIds(s) == TaskIds(s.next_task_id)

\* the submits a caller can make, the polls it can make of id
Submits == {<<"submit", in>> : in \in SubmitInputs(MaxPredict)}

Polls(id) == {<<"poll", id, in>> : in \in PollInputs(Vocab)}

\* what the call c returns when made of session s
Answer(s, c) ==
  CASE c[1] = "submit"  -> requestCompletion(s, c[2][1], c[2][2], c[2][3],
                                             c[2][4], c[2][5])
    [] c[1] = "poll"    -> receiveCompletion(s, c[2], c[3][1], c[3][2])

\* the poll o neither sampled nor decoded and left the session as it was
Idle(o, s) == o.sampler = NoSampler /\ ~o.decoded /\ o.st = s

\* C1: for a task submitted with n_predict = N, at most N polls return a
\* non-final fragment, and every poll of the task made once N tokens have
\* been generated returns an empty fragment with isFinal = true without
\* sampling or decoding (the poll of a task whose cancellation flag is set
\* is answered by the earlier cancellation check, see C5).
C1_GenerationLimit ==
  \A id \in DOMAIN active_tasks :
    LET task == active_tasks[id] IN
    /\ hist[id].n_fragments <= task.n_predict
    /\ (~task.cancelled /\ Len(task.generated_tokens) >= task.n_predict)
       => \A c \in Polls(id) :
            LET o == Answer(Now, c)
            IN /\ o.result = "output"
               /\ o.fragment = <<>>
               /\ o.isFinal
               /\ Idle(o, Now)

\* a task with N = 2 has returned two fragments: its next poll is final
C1_Witness ==
  \E id \in DOMAIN active_tasks :
    /\ active_tasks[id].n_predict = 2
    /\ hist[id].n_fragments = 2
    /\ ~active_tasks[id].cancelled
    /\ \A c \in Polls(id) : Answer(Now, c).stage = "limit"

RECURSIVE TextOf(_)
\* the text of a token sequence: the pieces of its tokens, in order
TextOf(tokens) ==
  IF tokens = <<>> THEN <<>>
  ELSE TokenToPiece(Head(tokens)) \o TextOf(Tail(tokens))

\* C2: a poll whose sampled token is an end-of-generation token returns
\* isFinal = true with the whole text accumulated before it (the text of
\* the tokens generated by the earlier polls); the token is not appended,
\* current_pos is not advanced and nothing is decoded.
C2_EogShortCircuit ==
  \A id \in DOMAIN active_tasks :
    /\ active_tasks[id].current_text = TextOf(active_tasks[id].generated_tokens)
    /\ \A c \in Polls(id) :
         LET o == Answer(Now, c)
         IN (o.sampler # NoSampler /\ IsEog(o.token))
            => /\ o.result = "output"
               /\ o.isFinal
               /\ o.fragment = active_tasks[id].current_text
               /\ o.st.active_tasks = active_tasks
               /\ ~o.decoded
               /\ o.st.kv_seq0 = kv_seq0

\* two polls returned a fragment each and the next poll samples: an
\* end-of-generation token makes it final with the text of both
C2_Witness ==
  \E id \in DOMAIN active_tasks :
    /\ Len(active_tasks[id].current_text) = 2
    /\ hist[id].n_fragments = 2
    /\ LET o == receiveCompletion(Now, id, EOG, 0)
       IN o.stage = "eog" /\ Len(o.fragment) = 2

\* C3 (as claimed): once a poll of a task has returned isFinal = true or has
\* observed the cancellation flag, no later poll of that task samples or
\* decodes.  Stated for the poll that directly follows: it already fails.
C3_TerminalIsFinal ==
  \A id \in DOMAIN active_tasks :
    \A c \in Polls(id) :
      LET o == Answer(Now, c)
      IN (o.isFinal \/ o.stage = "cancelled")
         => \A next \in Polls(id) :
              LET later == Answer(o.st, next)
              IN later.sampler = NoSampler /\ ~later.decoded

\* C4 (as claimed): the concatenation of the non-final fragments returned
\* for a task equals the task's accumulated text.
C4_FragmentsAreText ==
  \A id \in DOMAIN active_tasks :
    hist[id].fragments = active_tasks[id].current_text

\* the ids drawn so far whose task is not registered
Gone == TaskIds(next_task_id - 1) \ DOMAIN active_tasks

\* C5: after cancel(id) has returned for a registered task, every later
\* poll(id) returns null, samples nothing, decodes nothing and leaves the
\* task unchanged, whatever budget remains: cancel sets the flag and a
\* poll of a flagged or unregistered id does nothing (in every state), no
\* step changes a flagged task while it is registered and no step
\* registers a drawn id again.
C5_CancelStopsGeneration ==
  /\ [](/\ \A id \in DOMAIN active_tasks :
             /\ LET c == cancelCompletion(Now, id)
                IN /\ id \in DOMAIN c.st.active_tasks
                   /\ c.st.active_tasks[id] = [active_tasks[id] EXCEPT
                                                 !.cancelled = TRUE]
             /\ active_tasks[id].cancelled
                => \A c \in Polls(id) :
                     LET o == Answer(Now, c)
                     IN o.result = "null" /\ Idle(o, Now)
        /\ \A id \in Gone :
             \A c \in Polls(id) :
               LET o == Answer(Now, c)
               IN o.result = "null" /\ Idle(o, Now))
  /\ [][/\ \A id \in DOMAIN active_tasks :
             (active_tasks[id].cancelled /\ id \in DOMAIN active_tasks')
             => active_tasks'[id] = active_tasks[id]
        /\ \A id \in Gone : id \notin DOMAIN active_tasks']_vars

\* a task that generated a token and has budget left carries the flag
C5_Witness ==
  /\ g_servers
  /\ \E id \in DOMAIN active_tasks :
       /\ active_tasks[id].cancelled
       /\ Len(active_tasks[id].generated_tokens) = 1
       /\ active_tasks[id].n_predict > 1

\* C6: a release does not fail; a release of an id that is not registered
\* (released before, or never issued) changes nothing, so a second release
\* of an id leaves what the first one left; a release of a registered id
\* leaves every other task unchanged.
C6_ReleaseIdempotent ==
  \A id \in KnownIds(Now) :
    LET first  == releaseTask(Now, id)
        second == releaseTask(first.st, id)
    IN /\ first.result = "void"
       /\ first.st.native_faults = native_faults
       /\ id \notin DOMAIN active_tasks => first.st = Now
       /\ second.result = "void"
       /\ second.st = first.st
       /\ \A j \in DOMAIN active_tasks \ {id} :
            /\ j \in DOMAIN first.st.active_tasks
            /\ first.st.active_tasks[j] = active_tasks[j]

\* an issued id has been released while a task issued later is registered
C6_Witness ==
  /\ g_servers
  /\ \E i \in DOMAIN issued :
       /\ issued[i] \notin DOMAIN active_tasks
       /\ \E j \in DOMAIN active_tasks : j > issued[i]

\* the submit o failed at tokenization, at the prompt decode or at grammar
\* compilation
FailedSubmit(o) == o.stage \in {"tokenize", "decode", "grammar"}

\* C7: a submit that fails at tokenization, at the prompt decode or at
\* grammar compilation returns -1 and leaves the registry as it was: the
\* same ids, each with the same task.
C7_FailedSubmitLeavesRegistry ==
  \A c \in Submits :
    LET o == Answer(Now, c)
    IN FailedSubmit(o)
       => /\ o.rc = -1
          /\ DOMAIN o.st.active_tasks = DOMAIN active_tasks
          /\ o.st.active_tasks = active_tasks

\* a submit has failed (its id was drawn and never returned) after the
\* submit of a task that is still registered
C7_Witness ==
  /\ g_servers
  /\ \E id \in TaskIds(next_task_id - 1) :
       /\ \A i \in DOMAIN issued : issued[i] # id
       /\ \E j \in DOMAIN active_tasks : j < id

\* C8: every successful submit returns an id strictly greater than every
\* id returned before it, also after releases and failed submissions: the
\* ids returned so far are in increasing order and below the id the next
\* submit draws, and a registered task carries a returned id.
C8_IdsStrictlyIncrease ==
  /\ \A i, j \in DOMAIN issued : i < j => issued[i] < issued[j]
  /\ \A id \in DOMAIN active_tasks : \E i \in DOMAIN issued : issued[i] = id
  /\ \A i \in DOMAIN issued : issued[i] < TakeTaskId(next_task_id)

\* two ids were issued and the task of the first has been released
C8_Witness ==
  /\ Len(issued) = 2
  /\ issued[1] \notin DOMAIN active_tasks
  /\ issued[2] \in DOMAIN active_tasks
  /\ g_servers

\* the task-specific sampler chains
TaskChains == DOMAIN samplers \ {ServerSampler}

\* C9: each task-specific sampler chain is freed exactly once: never twice,
\* never sampled from after the free, live exactly while its task is
\* registered on a live session and owned by one task only.
C9_ChainFreedOnce ==
  /\ native_faults = {}
  /\ \A h \in TaskChains :
       /\ samplers[h].frees <= 1
       /\ (samplers[h].status = "freed") <=> (samplers[h].frees = 1)
       /\ (samplers[h].status = "live") <=>
            (g_servers /\ \E id \in DOMAIN active_tasks :
                            active_tasks[id].task_sampler = h)
  /\ \A i, j \in DOMAIN active_tasks :
       (i # j /\ active_tasks[i].task_sampler # NoSampler)
       => active_tasks[i].task_sampler # active_tasks[j].task_sampler

\* the session was torn down and two chains have each been freed once
C9_Witness ==
  /\ ~g_servers
  /\ Cardinality({h \in TaskChains : samplers[h].frees = 1}) = 2

\* C10: tasks on one session are not isolated.  A submit that decodes its
\* prompt leaves sequence slot 0 holding that prompt alone, whatever tasks
\* are registered, and a poll decodes at its task's current_pos whatever
\* the slot holds; the witness is a poll of one task that decoded at a
\* position that was not the number of tokens in the slot.
C10_SharedSlot ==
  /\ \A c \in Submits :
       LET o == Answer(Now, c)
       IN o.stage = "stored"
          => /\ DOMAIN active_tasks \subseteq DOMAIN o.st.active_tasks
             /\ o.st.kv_seq0
                  = PromptPositions(
                      Len(o.st.active_tasks[o.id].prompt_tokens))
  /\ \A id \in DOMAIN active_tasks :
       \A c \in Polls(id) :
         LET o == Answer(Now, c)
         IN o.decoded
            => /\ o.decode_pos = active_tasks[id].current_pos
               /\ o.n_kv = Len(kv_seq0)
               /\ o.decode_ok
                  => o.st.kv_seq0
                       = Append(kv_seq0, active_tasks[id].current_pos)

\* with two tasks registered, the slot holds a token at a position that is
\* not its index: the poll that decoded it found another count in the slot
C10_Witness ==
  /\ Cardinality(DOMAIN active_tasks) = 2
  /\ \E k \in DOMAIN kv_seq0 : kv_seq0[k] # k - 1
  /\ \E id \in DOMAIN active_tasks :
       active_tasks[id].current_pos # Len(kv_seq0)

\* C11: with poll, cancel, release and submit called from several threads,
\* at most one thread is between the lock of the registry and its return;
\* the task a poll or a cancel looked up stays registered until that call
\* returns, no task is destroyed while another thread holds it, and no
\* call reads or writes a destroyed task.
C11_RegistryExclusive ==
  /\ Cardinality({t \in Threads : InRegistry(t)}) <= 1
  /\ \A t \in Threads :
       /\ InRegistry(t) => active_tasks_mutex = t
       /\ task_ptr[t] # NoTask
          => InRegistry(t) /\ task_ptr[t] \in DOMAIN active_tasks
  /\ native_faults \cap {"use_after_free", "destroyed_in_use"} = {}

\* a poll holds the task it looked up while another thread waits at the
\* lock to release that task
C11_Witness ==
  \E t, u \in Threads :
    /\ pc[t] = "poll_body"
    /\ pc[u] = "release_lock"
    /\ local_id[u] = task_ptr[t]

\* C12: every decode batch allocated inside a submit or a poll is freed
\* exactly once before the call returns, whether the decode succeeded or
\* failed: between calls no batch is allocated and none was freed twice.
C12_BatchFreedOnce ==
  /\ batches = 0
  /\ "batch_double_free" \notin native_faults

\* the one task submitted has generated a token that is not in the slot:
\* the decode of its poll failed, after the decode of its prompt succeeded
C12_Witness ==
  /\ issued = <<1>>
  /\ next_task_id = 2
  /\ 1 \in DOMAIN active_tasks
  /\ Len(active_tasks[1].generated_tokens) = 1
  /\ kv_seq0 = PromptPositions(Len(active_tasks[1].prompt_tokens))

\* ------------------------------------------ claims of the preprocessor
\* what a shorthand or an escape of a class stands for
EscapeMeaning(next) ==
  CASE next = Ord("d") -> Digits
    [] next = Ord("s") -> {32} \cup (9..13)
    [] next = Ord("w") -> (Ord("a")..Ord("z")) \cup (Ord("A")..Ord("Z"))
                            \cup Digits \cup {Ord("_")}
    [] next = Ord("n") -> {10}
    [] next = Ord("r") -> {13}
    [] next = Ord("t") -> {9}
    [] OTHER -> {next}

RECURSIVE ClassSet(_)
\* the characters a well-formed class content stands for: escapes and
\* shorthands, ranges x-y, literals
ClassSet(content) ==
  IF content = <<>> THEN {}
  ELSE IF content[1] = Backslash /\ Len(content) >= 2
  THEN EscapeMeaning(content[2])
         \cup ClassSet(SubSeq(content, 3, Len(content)))
  ELSE IF Len(content) >= 3 /\ content[2] = Dash
  THEN (content[1]..content[3])
         \cup ClassSet(SubSeq(content, 4, Len(content)))
  ELSE {content[1]} \cup ClassSet(Tail(content))

\* the content S of a pattern [^S]
ClassContent(given) == SubSeq(given, 3, Len(given) - 1)

\* the number of backslashes that stand right before offset k of a text
BackslashRun(text, k) ==
  CHOOSE n \in 0..(k - 1) :
    /\ \A j \in 1..n : text[k - j] = Backslash
    /\ n = k - 1 \/ text[k - n - 1] # Backslash

\* an escape begins at k: a backslash that no backslash before it escapes
EscapeStart(text, k) ==
  /\ k \in 1..Len(text)
  /\ text[k] = Backslash
  /\ BackslashRun(text, k) % 2 = 0

\* the escape at k is \xNN
HexEscapeAt(text, k) ==
  /\ EscapeStart(text, k)
  /\ k + 3 <= Len(text)
  /\ text[k + 1] = LowerX
  /\ IsHex(text[k + 2]) /\ IsHex(text[k + 3])

\* the character the class text names at k: the value of \xNN, the
\* character escaped, a literal; NoMatch inside an escape
MemberAt(text, k) ==
  IF \/ EscapeStart(text, k - 1)
     \/ HexEscapeAt(text, k - 2)
     \/ HexEscapeAt(text, k - 3)
  THEN NoMatch
  ELSE IF HexEscapeAt(text, k)
  THEN HexValue(<< text[k + 2], text[k + 3] >>)
  ELSE IF EscapeStart(text, k)
  THEN IF k < Len(text) THEN text[k + 1] ELSE NoMatch
  ELSE text[k]

\* the characters named in the text of a class body, each with the
\* offset that names it
Members(text) ==
  { << k, MemberAt(text, k) >> : k \in 1..Len(text) }

\* text is a positive class [...] in which every printable character
\* outside S is named exactly once and no printable character of S is
PositiveComplement(text, S) ==
  /\ Len(text) >= 2
  /\ text[1] = LBracket /\ text[Len(text)] = RBracket
  /\ LET body    == SubSeq(text, 2, Len(text) - 1)
         members == Members(body)
     IN /\ Len(body) > 0 => body[1] # Caret
        /\ \A k \in 1..Len(body) :
             body[k] \in {RBracket, Dash} => EscapeStart(body, k - 1)
        /\ \A b \in Ord(" ")..Ord("~") :
             Cardinality({m \in members : m[2] = b})
               = IF b \in S THEN 0 ELSE 1

HasEscape(text, letter, n) ==
  \E k \in 1..Len(text) :
    /\ k + 1 + n <= Len(text)
    /\ text[k] = Backslash
    /\ text[k + 1] = letter
    /\ \A j \in 1..n : IsHex(text[k + 1 + j])

\* the text holds [^ and, after it, a closing bracket
HasNegatedClass(text) ==
  \E k, j \in 1..Len(text) :
    /\ k + 1 < j
    /\ text[k] = LBracket /\ text[k + 1] = Caret
    /\ text[j] = RBracket

\* no \uXXXX, no \xXX, no [^...]
Plain(text) ==
  /\ ~HasEscape(text, LowerU, 4)
  /\ ~HasEscape(text, LowerX, 2)
  /\ ~HasNegatedClass(text)

\* C14: for a pattern with no \u escape, no \x escape and no [^...]
\* bracket expression, preprocess returns the pattern byte for byte
C14_PlainUnchanged ==
  (pp_pc = "done" /\ Plain(pattern)) => pp_result = pattern

\* preprocess has returned for [^\xa: an open class and a \x with one
\* hex digit only
C14_Witness ==
  /\ pp_pc = "done"
  /\ pattern = Str(<<"[", "^", "\\", "x", "a">>)
  /\ Plain(pattern)

\* C15: preprocess terminates and returns a string for every pattern,
\* the negated classes with ranges of any endpoints included
C15_Terminates == <>(pp_pc = "done")

\* ----------------------------------------- claims of the batch manager
\* the code the checks are to give for the batch registered under the
\* handle, in their order; 0 where the native call is to be made
ExpectedCode(ctx, registry, handle) ==
  IF ~ctx \/ handle \notin DOMAIN registry THEN -1
  ELSE LET b == registry[handle]
       IN IF b.n_tokens <= 0 THEN -2
          ELSE IF ~b.token THEN -3
          ELSE IF ~b.pos THEN -4
          ELSE IF ~b.logits THEN -5
          ELSE IF /\ b.seq_id # NullArray
                  /\ \E i \in 1..b.n_tokens : b.seq_id[i] = NullSlot
          THEN -6
          ELSE 0

\* C16: decodeTokens and encodeContext return -1 for an unknown batch
\* handle or a missing context, else -2 for n_tokens <= 0, else -3, -4,
\* -5 for a missing token, position, logit-flag array, else -6 for an
\* unallocated sequence-id slot among the first n_tokens, each without
\* the native call; else they make the native call
C16_ValidationCodes ==
  \A ctx \in BOOLEAN, handle \in {BatchHandle, NoBatchHandle},
     result \in NativeResults :
    LET expected == ExpectedCode(ctx, batchRegistry, handle)
        decoded  == decodeTokens(ctx, batchRegistry, handle, result)
        encoded  == encodeContext(ctx, batchRegistry, handle, result)
    IN IF expected # 0
       THEN /\ decoded.rc = expected /\ ~decoded.native
            /\ encoded.rc = expected /\ ~encoded.native
       ELSE /\ decoded.native /\ decoded.rc = result
            /\ encoded.native /\ encoded.rc = result

\* decodeTokens has returned -6 for a batch that passed the checks
\* before: its second sequence-id slot is not allocated
C16_Witness ==
  /\ batch_call = [ op |-> "decodeTokens", rc |-> -6, native |-> FALSE ]
  /\ BatchHandle \in DOMAIN batchRegistry
  /\ LET b == batchRegistry[BatchHandle]
     IN /\ b.n_tokens = 2 /\ b.token /\ b.pos /\ b.logits
        /\ b.seq_id # NullArray
        /\ b.seq_id[1] # NullSlot /\ b.seq_id[2] = NullSlot

\* the batch has both sequence-id arrays
HasSeqArrays(b) == b.n_seq_id # NullArray /\ b.seq_id # NullArray

\* C17 as stated: when decodeTokens or encodeContext reaches the native
\* call, every position i < n_tokens has n_seq_id[i] = 1 and
\* seq_id[i][0] = 0, whatever the slots held before
C17_AllDefault ==
  (batch_call.native /\ BatchHandle \in DOMAIN batchRegistry)
    => LET b == batchRegistry[BatchHandle]
       IN HasSeqArrays(b)
            => \A i \in 1..b.n_tokens :
                 b.n_seq_id[i] = 1 /\ b.seq_id[i] = 0

\* C17, amended: when decodeTokens or encodeContext reaches the native
\* call, every position i < n_tokens has n_seq_id[i] >= 1 and
\* seq_id[i][0] >= 0; a count that was not positive has become 1, a
\* negative id has become 0, and the counts and ids that were valid are
\* the ones the slots held before
C17_DefaultWhereInvalid ==
  /\ [](( batch_call.native /\ BatchHandle \in DOMAIN batchRegistry)
          => LET b == batchRegistry[BatchHandle]
             IN HasSeqArrays(b)
                  => \A i \in 1..b.n_tokens :
                       /\ b.n_seq_id[i] >= 1
                       /\ b.seq_id[i] # NullSlot /\ b.seq_id[i] >= 0)
  /\ [][ batch_call'.native
           => LET b == batchRegistry[BatchHandle]
                  a == batchRegistry'[BatchHandle]
              IN HasSeqArrays(b)
                   => \A i \in 1..b.n_tokens :
                        /\ a.n_seq_id[i] = IF b.n_seq_id[i] <= 0 THEN 1
                                           ELSE b.n_seq_id[i]
                        /\ a.seq_id[i] = IF b.seq_id[i] < 0 THEN 0
                                         ELSE b.seq_id[i] ]_vars

\* the native call was reached with a count of 2 and an id of 1 kept
\* next to a count and an id that are the defaults
C17_Witness ==
  /\ batch_call.native
  /\ BatchHandle \in DOMAIN batchRegistry
  /\ batchRegistry[BatchHandle].n_tokens = 2
  /\ batchRegistry[BatchHandle].n_seq_id = << 1, 2 >>
  /\ batchRegistry[BatchHandle].seq_id = << 0, 1 >>

\* C18 (as stated): an operation given a handle whose object freeSampler
\* or freeAdapter has freed, a second free included, is rejected by the
\* handle check and makes no native call
C18_FreedRejected == handle_call.stale => ~handle_call.native

\* the values the handle check is said to reject
InvalidHandle(h) == h <= 0 \/ h < MinPointer \/ h = JLongMax

\* every operation given handle h lets it pass when nothing else (a
\* missing context or server, the other handle of the pair) stops it
PassesCheck(objs, h) ==
  /\ addToSamplerChain(objs, h, h).call.native
  /\ cloneSampler(objs, h, NullPtr).call.native
  /\ freeSampler(objs, h).call.native
  /\ sampleToken(objs, h, TRUE).call.native
  /\ \A op \in {"acceptToken", "resetSampler", "getSamplerName"} :
       SamplerCall(objs, op, h).call.native
  /\ freeAdapter(objs, h).call.native
  /\ \A op \in {"setAdapter", "removeAdapter"} :
       AdapterCall(objs, op, h, TRUE).call.native
  /\ getAdapterMetaCount(objs, h).call.native

\* C19 (as stated): every sampler or adapter operation given a handle
\* h <= 0, h < 0x1000 or h = 0x7FFFFFFFFFFFFFFF makes no native call and
\* signals a failure; every other handle value passes the check
C19_InvalidSignalled ==
  /\ (\E h \in handle_call.handles : InvalidHandle(h))
       => ~handle_call.native /\ handle_call.failure
  /\ \A h \in HandleValues :
       ~InvalidHandle(h) => PassesCheck(native_objects, h)

\* C19 (amended): every sampler or adapter operation given such a handle
\* makes no native call; all but freeSampler and freeAdapter signal a
\* failure, these two return silently; every other value passes the check
C19_InvalidRejected ==
  /\ (\E h \in handle_call.handles : InvalidHandle(h))
       => /\ ~handle_call.native
          /\ handle_call.failure
               <=> handle_call.op \notin {"freeSampler", "freeAdapter"}
  /\ \A h \in HandleValues :
       ~InvalidHandle(h) => PassesCheck(native_objects, h)

\* freeSampler(0) has returned: no native call, no failure signalled
C19_Witness ==
  /\ handle_call.op = "freeSampler"
  /\ handle_call.handles = {0}
  /\ ~handle_call.native
  /\ ~handle_call.failure
  /\ \E p \in Pointers : Live(native_objects, p)

\* C20: after a successful submit and after every poll, whatever the poll
\* returned (a fragment, a final response, no result) and also when its
\* decode failed, every registered task has
\* current_pos = |prompt_tokens| + |generated_tokens|
C20_PositionCounts ==
  \A id \in DOMAIN active_tasks :
    active_tasks[id].current_pos
      = Len(active_tasks[id].prompt_tokens)
          + Len(active_tasks[id].generated_tokens)

\* a task with a prompt has generated a token whose decode failed: the
\* slot holds fewer tokens than the task counts
C20_Witness ==
  /\ Cardinality(DOMAIN active_tasks) = 1
  /\ \E id \in DOMAIN active_tasks :
       /\ Len(active_tasks[id].prompt_tokens) >= 1
       /\ Len(active_tasks[id].generated_tokens) >= 1
       /\ active_tasks[id].current_pos
            = Len(active_tasks[id].prompt_tokens)
                + Len(active_tasks[id].generated_tokens)
       /\ Len(kv_seq0) < active_tasks[id].current_pos

\* C21 (as stated): a task's state only moves forward along PENDING ->
\* PROCESSING_PROMPT -> GENERATING -> {COMPLETED | CANCELLED}: a stored
\* task is GENERATING, a poll that returns isFinal = true leaves it
\* COMPLETED, a poll that observes the cancellation flag leaves it CANCELLED
C21_Lifecycle ==
  /\ \A id \in DOMAIN active_tasks :
       active_tasks[id].state \in {"GENERATING", "COMPLETED", "CANCELLED"}
  /\ \A c \in Submits :
       LET o == Answer(Now, c)
       IN o.stage = "stored" => o.st.active_tasks[o.id].state = "GENERATING"
  /\ \A id \in DOMAIN active_tasks :
       \A c \in Polls(id) :
         LET o == Answer(Now, c)
         IN /\ o.isFinal => o.st.active_tasks[id].state = "COMPLETED"
            /\ o.stage = "cancelled"
                 => o.st.active_tasks[id].state = "CANCELLED"

\* C22: a poll that passes the cancellation and the limit check samples
\* once, the token it is given, from the task's own sampler if the task
\* has one and from the session's sampler otherwise, and feeds the token
\* back (accept) exactly when the task's own sampler was used, an
\* end-of-generation token included; a poll stopped by a check samples
\* and accepts nothing
C22_SampleAccept ==
  \A id \in DOMAIN active_tasks :
    \A c \in Polls(id) :
      LET o    == Answer(Now, c)
          task == active_tasks[id]
      IN IF task.cancelled \/ LimitReached(task)
         THEN o.sampler = NoSampler /\ ~o.accepted
         ELSE /\ o.sampler = IF task.task_sampler # NoSampler
                             THEN task.task_sampler ELSE ServerSampler
              /\ o.token = c[3][1]
              /\ o.accepted <=> o.sampler = task.task_sampler
              /\ o.accepted <=> task.task_sampler # NoSampler

\* a task with its own sampler and a task without have each generated a
\* token: one poll sampled from the task's chain, one from the session's
C22_Witness ==
  /\ \E id \in DOMAIN active_tasks :
       /\ active_tasks[id].task_sampler # NoSampler
       /\ Len(active_tasks[id].generated_tokens) >= 1
  /\ \E id \in DOMAIN active_tasks :
       /\ active_tasks[id].task_sampler = NoSampler
       /\ Len(active_tasks[id].generated_tokens) >= 1

\* C23: a poll whose one-token decode fails returns null; the task stays
\* registered, GENERATING, with its cancellation flag and its sampler as
\* they were, no sampler is freed, and every other task is as it was
C23_DecodeFailureKeepsTask ==
  \A id \in DOMAIN active_tasks :
    \A c \in Polls(id) :
      LET o == Answer(Now, c)
      IN (o.decoded /\ ~o.decode_ok)
         => /\ o.result = "null"
            /\ DOMAIN o.st.active_tasks = DOMAIN active_tasks
            /\ o.st.active_tasks[id].state = "GENERATING"
            /\ o.st.active_tasks[id].cancelled = active_tasks[id].cancelled
            /\ o.st.active_tasks[id].task_sampler
                 = active_tasks[id].task_sampler
            /\ o.st.samplers = samplers
            /\ o.st.g_servers
            /\ \A other \in DOMAIN active_tasks \ {id} :
                 o.st.active_tasks[other] = active_tasks[other]

\* two tasks are registered and each has generated a token, yet the slot
\* holds no more than the prompt of the later one: the decode of that
\* task's poll failed, and the task is registered and GENERATING
C23_Witness ==
  /\ DOMAIN active_tasks = {1, 2}
  /\ \A id \in {1, 2} : Len(active_tasks[id].generated_tokens) = 1
  /\ Len(kv_seq0) <= Len(active_tasks[2].prompt_tokens)
  /\ active_tasks[2].state = "GENERATING"
  /\ ~active_tasks[2].cancelled

\* C24: cancel(id) changes nothing but the cancellation flag of task id:
\* the registry, the task's tokens, text, position and sampler, the other
\* tasks, the slot and the samplers are as before; cancel of an id that
\* is not registered changes nothing; and every later poll of the
\* cancelled task leaves the session as it is, so the task stays
\* registered until it is released
C24_CancelFrame ==
  /\ \A id \in TaskIds(MaxTasks + 1) :
       LET o == cancelCompletion(Now, id)
       IN IF g_servers /\ id \in DOMAIN active_tasks
          THEN o.st = [Now EXCEPT !.active_tasks[id].cancelled = TRUE]
          ELSE o.st = Now
  /\ \A id \in DOMAIN active_tasks :
       active_tasks[id].cancelled
         => \A c \in Polls(id) : Answer(Now, c).st = Now

\* a cancelled task is registered with the token it generated, its text,
\* and its own sampler, which has not been freed
C24_Witness ==
  \E id \in DOMAIN active_tasks :
    /\ active_tasks[id].cancelled
    /\ Len(active_tasks[id].generated_tokens) >= 1
    /\ Len(active_tasks[id].current_text) >= 1
    /\ active_tasks[id].task_sampler # NoSampler
    /\ samplers[active_tasks[id].task_sampler].status = "live"

\* the text begins with \u and four hex digits
StartsUnicode(text) ==
  /\ Len(text) >= 6
  /\ text[1] = Backslash /\ text[2] = LowerU
  /\ \A k \in 3..6 : IsHex(text[k])

\* the codepoint the four hex digits of the escape at the start name
CodepointOf(text) ==
  4096 * HexDigit(text[3]) + 256 * HexDigit(text[4])
    + 16 * HexDigit(text[5]) + HexDigit(text[6])

\* the UTF-8 encoding of a codepoint of the basic plane: 0xxxxxxx,
\* 110xxxxx 10xxxxxx, 1110xxxx 10xxxxxx 10xxxxxx
Utf8(cp) ==
  IF cp < 128 THEN << cp >>
  ELSE IF cp < 2048 THEN << 192 + (cp \div 64), 128 + (cp % 64) >>
  ELSE << 224 + (cp \div 4096), 128 + ((cp \div 64) % 64),
          128 + (cp % 64) >>

RECURSIVE UnicodeDecoded(_)
\* the text read from the left: an escape gives its encoding, or nothing
\* for U+2028 and U+2029, every other byte gives itself
UnicodeDecoded(text) ==
  IF text = <<>> THEN <<>>
  ELSE IF StartsUnicode(text)
  THEN (IF CodepointOf(text) \in {8232, 8233} THEN <<>>
        ELSE Utf8(CodepointOf(text)))
       \o UnicodeDecoded(SubSeq(text, 7, Len(text)))
  ELSE << text[1] >> \o UnicodeDecoded(Tail(text))

\* C25: the Unicode pass replaces every \uXXXX with four hex digits by
\* the UTF-8 encoding of the codepoint, removes the escapes of U+2028 and
\* U+2029, leaves a \u followed by fewer than four hex digits or by a
\* non-hex character as it is, and copies all other text unchanged and
\* in order
C25_UnicodePass ==
  pp_pc = "hex" => pp_result = UnicodeDecoded(pattern)

\* the pass has run on a separator, a two-byte codepoint and an escape
\* cut short: the separator is gone, the codepoint is two bytes, the
\* short escape stands
C25_Witness ==
  /\ pp_pc = "hex"
  /\ pattern = Str(<<"\\", "u", "2", "0", "2", "8">>)
                 \o Str(<<"\\", "u", "0", "0", "e", "9">>)
                 \o Str(<<"\\", "u", "2", "0">>)
  /\ pp_result = << 195, 169 >> \o Str(<<"\\", "u", "2", "0">>)

\* the text begins with \x and two hex digits
StartsHex(text) ==
  /\ Len(text) >= 4
  /\ text[1] = Backslash /\ text[2] = LowerX
  /\ IsHex(text[3]) /\ IsHex(text[4])

\* the byte the two hex digits of the escape at the start name
ByteOf(text) == 16 * HexDigit(text[3]) + HexDigit(text[4])

RECURSIVE HexDecoded(_)
\* the text read from the left: an escape gives its byte, or nothing for
\* 0x0B, 0x0C and 0x85, every other byte gives itself
HexDecoded(text) ==
  IF text = <<>> THEN <<>>
  ELSE IF StartsHex(text)
  THEN (IF ByteOf(text) \in {11, 12, 133} THEN <<>>
        ELSE << ByteOf(text) >>)
       \o HexDecoded(SubSeq(text, 5, Len(text)))
  ELSE << text[1] >> \o HexDecoded(Tail(text))

\* C26: the hex pass runs on what the Unicode pass returned and before
\* the negated classes are rewritten; it replaces every \xXX with two hex
\* digits by the byte of that value, removes the escapes of 0x0B, 0x0C
\* and 0x85, and copies all other text unchanged and in order
C26_HexPass ==
  pp_pc = "negated"
    => /\ pp_result = HexDecoded(UnicodeDecoded(pattern))
       /\ class_result = <<>> /\ last_pos = 0

\* the hex pass has run after the Unicode pass: the backslash the
\* Unicode escape gave and the x41 after it were read as a hex escape,
\* and the escape of 0x0B is gone
C26_Witness ==
  /\ pp_pc = "negated"
  /\ pattern = Str(<<"\\", "u", "0", "0", "5", "c">>) \o Str(<<"x", "4", "1">>)
                 \o Str(<<"\\", "x", "0", "b">>)
  /\ pp_result = Str(<<"A">>)

\* C27: a poll whose decode fails has appended the sampled token to
\* generated_tokens, its text to the accumulated text, and has advanced
\* current_pos; it returns no fragment; the token counts in the limit
\* check of the next poll, and the text is part of what a later
\* end-of-generation response carries
C27_FailedPollCounts ==
  \A id \in DOMAIN active_tasks :
    \A c \in Polls(id) :
      LET o      == Answer(Now, c)
          before == active_tasks[id]
          after  == o.st.active_tasks[id]
      IN (o.decoded /\ ~o.decode_ok)
         => /\ o.result = "null" /\ o.fragment = <<>>
            /\ after.generated_tokens
                 = Append(before.generated_tokens, o.token)
            /\ after.current_text
                 = before.current_text \o TokenToPiece(o.token)
            /\ after.current_pos = before.current_pos + 1
            /\ \A d \in Polls(id) :
                 LET next == Answer(o.st, d)
                 IN /\ Len(before.generated_tokens) + 1 >= before.n_predict
                         => next.stage = "limit"
                    /\ next.stage = "eog"
                         => next.fragment
                              = before.current_text
                                  \o TokenToPiece(o.token)

\* the task has generated more tokens than its polls returned fragments,
\* and its text is longer than the fragments together: a poll failed in
\* its decode after the token and its text were added
C27_Witness ==
  \E id \in DOMAIN active_tasks :
    /\ id \in DOMAIN hist
    /\ hist[id].n_fragments >= 1
    /\ hist[id].n_fragments < Len(active_tasks[id].generated_tokens)
    /\ Len(hist[id].fragments) < Len(active_tasks[id].current_text)
    /\ ~active_tasks[id].cancelled

\* C28 (as stated): destroying a session terminates: once stop_server has
\* set should_stop and notified the condition variable, the server thread
\* leaves server_loop and join returns, however the stop interleaves with
\* the thread's test of the predicate and its wait
C28_StopTerminates ==
  \A s \in Sessions : (stopper[s] = "join") ~> (stopper[s] = "joined")

\* C29 (as stated): a session is never destroyed while a submit, poll,
\* cancel or release on it is still running: once deleteModel has erased
\* the session, no thread is inside a handler with the LlamaServer that
\* get_completion_server gave it
C29_NoTeardownInUse ==
  ~g_servers => \A t \in Threads : pc[t] = "idle"

\* C30 (as stated): two submit calls running concurrently on one session
\* never hold the same task id
C30_DistinctIds ==
  \A t, u \in Threads :
    (/\ t # u
     /\ pc[t] \in {"submit_write", "submit_prompt", "submit_lock",
                   "submit_store"}
     /\ pc[u] \in {"submit_write", "submit_prompt", "submit_lock",
                   "submit_store"})
      => local_id[t] # local_id[u]

====
